---- MODULE Spec2Model ----
(***************************************************************************)
(* The layer library of src/Convolution/Convolution.ipynb: convLayer,      *)
(* MaxPool, ReLU and l2_loss, each an object with a single-slot cache, and *)
(* the calls made on them.  Arrays are numpy arrays: a shape and one value *)
(* per index (0-based, as in Python).  Values are integers, on which the   *)
(* float arithmetic of the code is exact.                                  *)
(***************************************************************************)
EXTENDS Integers, Sequences, FiniteSets, TLC

VARIABLES
  conv,      \* a convLayer object
  maxpool,   \* a MaxPool object
  relu,      \* a ReLU object
  l2,        \* an l2_loss object
  call,      \* the latest call: its operation, argument and outcome
  poolPrev,  \* the call made on the MaxPool object before the latest one
  ncalls,    \* the number of calls made so far
  prev,      \* the call before the latest one, where a behaviour keeps it
  model,     \* the layers of the notebook's model: conv1, rl1, conv2, maxpool, rl2, l2
  gc,        \* the gradient check: its position, loop indices and locals
  hist,      \* the calls made so far, where a behaviour keeps them
  fcnn       \* the script of src/FCNN/FCNN.ipynb: its position and variables

vars == <<conv, maxpool, relu, l2, call, poolPrev, ncalls, prev, model, gc, hist, fcnn>>

(***************************************************************************)
(* Bounds of the model.                                                    *)
(***************************************************************************)
MaxSize == 3
MaxSeed == 1
MaxPoolSize == 4
MaxCalls == 3

Kernels == {1, 2}
Strides == {1, 2}
Pads == {0, 1}
Channels == {1, 2}

(***************************************************************************)
(* numpy arrays.                                                           *)
(***************************************************************************)
Max(a, b) == IF a >= b THEN a ELSE b
Min(a, b) == IF a <= b THEN a ELSE b

\* np.sum of the n numbers f[0], ..., f[n-1]
RECURSIVE SumRange(_, _, _)
SumRange(f, lo, hi) ==
  IF lo >= hi THEN 0
  ELSE IF hi = lo + 1 THEN f[lo]
  ELSE SumRange(f, lo, (lo + hi) \div 2) + SumRange(f, (lo + hi) \div 2, hi)
SumTo(f, n) == SumRange(f, 0, n)

\* self.cache = None / self.gradW = None
None == [shape |-> <<>>, v |-> <<>>]

Idx3(sh) == (0 .. sh[1] - 1) \X (0 .. sh[2] - 1) \X (0 .. sh[3] - 1)
Idx4(sh) == (0 .. sh[1] - 1) \X (0 .. sh[2] - 1) \X (0 .. sh[3] - 1) \X (0 .. sh[4] - 1)

T3(sh, f(_, _, _)) == [shape |-> sh, v |-> [ix \in Idx3(sh) |-> f(ix[1], ix[2], ix[3])]]
T4(sh, f(_, _, _, _)) ==
  [shape |-> sh, v |-> [ix \in Idx4(sh) |-> f(ix[1], ix[2], ix[3], ix[4])]]

At3(t, d, r, q) == t.v[<<d, r, q>>]
At4(t, c, d, r, q) == t.v[<<c, d, r, q>>]

\* A Python slice bound i on an axis of length n: negative bounds count from
\* the end, and every bound is clipped to the axis.
SliceBound(i, n) == IF i < 0 THEN Max(i + n, 0) ELSE Min(i, n)
\* The length of a[lo:hi] on an axis of length n.
SliceLen(lo, hi, n) == Max(0, SliceBound(hi, n) - SliceBound(lo, n))

\* numpy broadcasting of two axis lengths: equal, or one of them is 1; -1
\* stands for "operands could not be broadcast together".
Bdim(a, b) == IF a = b THEN a ELSE IF a = 1 THEN b ELSE IF b = 1 THEN a ELSE -1
\* The index read on an axis of length n when it is broadcast.
BIdx(n, i) == IF n = 1 THEN 0 ELSE i
\* An in-place operation (+=, *=, slice assignment) broadcasts its right side
\* (axis length b) to the target's axis (length a), never the target.
InPlaceOk(a, b) == b = a \/ b = 1

\* np.pad(x, ((0,0),(p,p),(p,p)), 'constant')
Pad(x, p) ==
  T3(<<x.shape[1], x.shape[2] + 2 * p, x.shape[3] + 2 * p>>,
     LAMBDA d, r, q :
       IF /\ r - p \in 0 .. x.shape[2] - 1
          /\ q - p \in 0 .. x.shape[3] - 1
       THEN At3(x, d, r - p, q - p) ELSE 0)

(***************************************************************************)
(* The arrays the calls are made with: every shape up to MaxSize, filled   *)
(* with values in -2..2 that depend on the shape and on a seed             *)
(* (np.random.normal in the notebook).                                     *)
(***************************************************************************)
Gen3(sh, seed) ==
  T3(sh, LAMBDA d, r, q :
       (((seed + sh[2] + 2 * sh[3]) * (1 + 2 * d + 3 * r + 5 * q) + d * r + q * q) % 5) - 2)
Gen4(sh, seed) ==
  T4(sh, LAMBDA c, d, r, q :
       ((seed * (2 + 3 * c + d + 2 * r + 5 * q) + c * q + r * r) % 4) - 1)

Shapes == Channels \X (1 .. MaxSize) \X (1 .. MaxSize)
Arrays == {Gen3(sh, seed) : sh \in Shapes, seed \in 1 .. MaxSeed}

PoolShapes == Channels \X (1 .. MaxPoolSize) \X (1 .. MaxPoolSize)
PoolArrays == {Gen3(sh, seed) : sh \in PoolShapes, seed \in 1 .. MaxSeed}

(***************************************************************************)
(* The outcome of a call: the exception it raised ("" when it returned),   *)
(* the array it returned and the object after the call.                    *)
(***************************************************************************)
Returned(obj, out) == [obj |-> obj, raised |-> "", ret |-> out]
Raised(obj, exc) == [obj |-> obj, raised |-> exc, ret |-> None]

\* No call made yet.
NoCall == [op |-> "none", arg |-> None, raised |-> "", ret |-> None]

\* The model of the notebook and its gradient check, where a behaviour is
\* about one layer object only: not built, not running.
NoModel == [built |-> FALSE]
NoCheck == [pc |-> "off"]
\* The script of the fully-connected example, where a behaviour does not run it
NoScript == [pc |-> "off"]

(***************************************************************************)
(* convLayer                                                               *)
(***************************************************************************)
\* convLayer.__init__
convLayerInit(kernelsize, inputDim, outDim, stride, pad, seed) ==
  [kernelsize |-> kernelsize, stride |-> stride, pad |-> pad,
   in_channels |-> inputDim, out_channels |-> outDim,
   W |-> Gen4(<<outDim, inputDim, kernelsize, kernelsize>>, seed),
   cache |-> None, gradW |-> None]

\* Mutant of OutputSize: the padding counted on one side only.
OutputSizeOnePad(L, x_width) == ((x_width - L.kernelsize + L.pad) \div L.stride) + 1

\* Mutant of OutputSize: the quotient rounded up instead of down.
OutputSizeCeil(L, x_width) ==
  ((x_width - L.kernelsize + 2 * L.pad + L.stride - 1) \div L.stride) + 1

\* output_size = (x_width - self.kernelsize + 2*self.pad)//self.stride + 1
OutputSize(L, x_width) == ((x_width - L.kernelsize + 2 * L.pad) \div L.stride) + 1

\* The number of rows (columns) of x[:, a*stride : a*stride + kernelsize] on an
\* axis of length n.
WindowLen(L, a, n) == SliceLen(a * L.stride, a * L.stride + L.kernelsize, n)

\* Mutant of WindowSum: the kernel is flipped (a convolution in the strict
\* sense instead of a cross-correlation).
WindowSumFlipped(L, x, c, i, j) ==
  LET k  == L.kernelsize
      kr == WindowLen(L, i, x.shape[2])
      kc == WindowLen(L, j, x.shape[3])
      nd == Bdim(L.in_channels, x.shape[1])
      nr == Bdim(k, kr)
      nc == Bdim(k, kc)
      prod == [e \in 0 .. nd * nr * nc - 1 |->
                 LET d == e \div (nr * nc)
                     a == (e \div nc) % nr
                     b == e % nc
                 IN At4(L.W, c, BIdx(L.in_channels, d), k - 1 - BIdx(k, a), k - 1 - BIdx(k, b))
                    * At3(x, BIdx(x.shape[1], d),
                          i * L.stride + BIdx(kr, a),
                          j * L.stride + BIdx(kc, b))]
  IN SumTo(prod, nd * nr * nc)

\* np.sum(self.W * x_slice, (1,2,3))[c], x_slice the window of x at (i, j)
WindowSum(L, x, c, i, j) ==
  LET k  == L.kernelsize
      kr == WindowLen(L, i, x.shape[2])
      kc == WindowLen(L, j, x.shape[3])
      nd == Bdim(L.in_channels, x.shape[1])
      nr == Bdim(k, kr)
      nc == Bdim(k, kc)
      prod == [e \in 0 .. nd * nr * nc - 1 |->
                 LET d == e \div (nr * nc)
                     a == (e \div nc) % nr
                     b == e % nc
                 IN At4(L.W, c, BIdx(L.in_channels, d), BIdx(k, a), BIdx(k, b))
                    * At3(x, BIdx(x.shape[1], d),
                          i * L.stride + BIdx(kr, a),
                          j * L.stride + BIdx(kc, b))]
  IN SumTo(prod, nd * nr * nc)

\* self.W * x_slice broadcasts at output position (i, j)
WindowOk(L, x, i, j) ==
  /\ Bdim(L.in_channels, x.shape[1]) # -1
  /\ Bdim(L.kernelsize, WindowLen(L, i, x.shape[2])) # -1
  /\ Bdim(L.kernelsize, WindowLen(L, j, x.shape[3])) # -1

\* Mutant of convCall: the output size is derived from the last dimension.
convCallSizeFromLast(L, x0) ==
  LET x_width == x0.shape[3]
      x == Pad(x0, L.pad)
      output_size == OutputSize(L, x_width)
  IN IF output_size < 0
     THEN Raised(L, "ValueError")
     ELSE IF \E i, j \in 0 .. output_size - 1 : ~WindowOk(L, x, i, j)
     THEN Raised(L, "ValueError")
     ELSE Returned([L EXCEPT !.cache = x],
                   T3(<<L.out_channels, output_size, output_size>>,
                      LAMBDA c, i, j : WindowSum(L, x, c, i, j)))

\* Mutant of convCall: the cache keeps the input of the first forward call.
convCallKeepCache(L, x0) ==
  LET x_width == x0.shape[2]
      x == Pad(x0, L.pad)
      output_size == OutputSize(L, x_width)
  IN IF output_size < 0
     THEN Raised(L, "ValueError")
     ELSE IF \E i, j \in 0 .. output_size - 1 : ~WindowOk(L, x, i, j)
     THEN Raised(L, "ValueError")
     ELSE Returned([L EXCEPT !.cache = IF L.cache = None THEN x ELSE L.cache],
                   T3(<<L.out_channels, output_size, output_size>>,
                      LAMBDA c, i, j : WindowSum(L, x, c, i, j)))

\* convLayer.__call__
convCall(L, x0) ==
  LET x_width == x0.shape[2]
      x == Pad(x0, L.pad)
      output_size == OutputSize(L, x_width)
  IN IF output_size < 0
     THEN Raised(L, "ValueError")   \* np.zeros: negative dimensions
     ELSE IF \E i, j \in 0 .. output_size - 1 : ~WindowOk(L, x, i, j)
     THEN Raised(L, "ValueError")   \* operands could not be broadcast together
     ELSE Returned([L EXCEPT !.cache = x],
                   T3(<<L.out_channels, output_size, output_size>>,
                      LAMBDA c, i, j : WindowSum(L, x, c, i, j)))

\* x[:, lo_r:hi_r, lo_c:hi_c] of a 3-d array, with Python's slice bounds
Crop(t, lo_r, hi_r, lo_c, hi_c) ==
  LET r0 == SliceBound(lo_r, t.shape[2])
      c0 == SliceBound(lo_c, t.shape[3])
  IN T3(<<t.shape[1], SliceLen(lo_r, hi_r, t.shape[2]), SliceLen(lo_c, hi_c, t.shape[3])>>,
        LAMBDA d, r, q : At3(t, d, r0 + r, c0 + q))

\* np.sum(self.W * delta[:,h,w].reshape(C,-1,1,1), axis=0)[d, a, b]
DxSum(L, delta, h, w, d, a, b) ==
  LET n == Bdim(L.out_channels, delta.shape[1])
      prod == [c \in 0 .. n - 1 |->
                 At4(L.W, BIdx(L.out_channels, c), d, a, b)
                 * At3(delta, BIdx(delta.shape[1], c), h, w)]
  IN SumTo(prod, n)

\* The two in-place additions of the loop body at output position (h, w)
\* broadcast: dX[window] += np.sum(dx, axis=0) and dW += x_slice * delta[:,h,w].
BackOk(L, delta, h, w) ==
  LET x  == L.cache
      k  == L.kernelsize
      kr == WindowLen(L, h, x.shape[2])
      kc == WindowLen(L, w, x.shape[3])
  IN /\ Bdim(L.out_channels, delta.shape[1]) # -1
     /\ InPlaceOk(x.shape[1], L.in_channels) /\ InPlaceOk(kr, k) /\ InPlaceOk(kc, k)
     /\ InPlaceOk(L.out_channels, delta.shape[1])
     /\ InPlaceOk(L.in_channels, x.shape[1]) /\ InPlaceOk(k, kr) /\ InPlaceOk(k, kc)

\* What the loop body at output position (h, w) adds to dX[d, r, q]
DxAt(L, delta, h, w, d, r, q) ==
  LET x  == L.cache
      k  == L.kernelsize
      a  == r - h * L.stride
      b  == q - w * L.stride
  IN IF /\ a \in 0 .. WindowLen(L, h, x.shape[2]) - 1
        /\ b \in 0 .. WindowLen(L, w, x.shape[3]) - 1
     THEN DxSum(L, delta, h, w, BIdx(L.in_channels, d), BIdx(k, a), BIdx(k, b))
     ELSE 0

\* Mutant of DwAt: delta read at channel 0 for every output channel.
DwAtFirstChannel(L, delta, h, w, c, d, a, b) ==
  At3(L.cache, BIdx(L.cache.shape[1], d), h * L.stride + a, w * L.stride + b)
  * At3(delta, 0, h, w)

\* What the loop body at output position (h, w) adds to dW[c, d, a, b]
DwAt(L, delta, h, w, c, d, a, b) ==
  LET x == L.cache
  IN At3(x, BIdx(x.shape[1], d),
            h * L.stride + BIdx(WindowLen(L, h, x.shape[2]), a),
            w * L.stride + BIdx(WindowLen(L, w, x.shape[3]), b))
     * At3(delta, BIdx(delta.shape[1], c), h, w)

\* Mutant of BackDX: each window is assigned (=) instead of added (+=), so the
\* last window that covers an entry wins.
BackDXOverwrite(L, delta) ==
  LET H == delta.shape[2]
      W == delta.shape[3]
      covers(n, r, q) ==
        /\ r - (n \div W) * L.stride \in 0 .. WindowLen(L, n \div W, L.cache.shape[2]) - 1
        /\ q - (n % W) * L.stride \in 0 .. WindowLen(L, n % W, L.cache.shape[3]) - 1
  IN T3(L.cache.shape,
        LAMBDA d, r, q :
          LET ns == {n \in 0 .. H * W - 1 : covers(n, r, q)}
          IN IF ns = {} THEN 0
             ELSE LET n == CHOOSE n \in ns : \A m \in ns : m <= n
                  IN DxAt(L, delta, n \div W, n % W, d, r, q))

\* The loop over the output positions: dX and dW after "for h, for w".
BackDX(L, delta) ==
  LET H == delta.shape[2]
      W == delta.shape[3]
  IN T3(L.cache.shape,
        LAMBDA d, r, q :
          SumTo([n \in 0 .. H * W - 1 |-> DxAt(L, delta, n \div W, n % W, d, r, q)], H * W))

BackDW(L, delta) ==
  LET H == delta.shape[2]
      W == delta.shape[3]
  IN T4(L.W.shape,
        LAMBDA c, d, a, b :
          SumTo([n \in 0 .. H * W - 1 |-> DwAt(L, delta, n \div W, n % W, c, d, a, b)], H * W))

\* Mutant of convBackward: the weight-gradient is added to the stored one
\* (self.gradW += dW) instead of replacing it.
convBackwardAccumulate(L, delta) ==
  IF L.cache = None
  THEN Raised(L, "AttributeError")
  ELSE IF \E h \in 0 .. delta.shape[2] - 1, w \in 0 .. delta.shape[3] - 1 :
            ~BackOk(L, delta, h, w)
  THEN Raised(L, "ValueError")
  ELSE Returned([L EXCEPT !.gradW =
                   IF L.gradW = None THEN BackDW(L, delta)
                   ELSE [shape |-> L.W.shape,
                         v |-> [ix \in Idx4(L.W.shape) |->
                                  L.gradW.v[ix] + BackDW(L, delta).v[ix]]]],
                Crop(BackDX(L, delta), L.pad, -L.pad, L.pad, -L.pad))

\* Mutant of convBackward: the cache is released once it has been used.
convBackwardClearsCache(L, delta) ==
  IF L.cache = None
  THEN Raised(L, "AttributeError")
  ELSE IF \E h \in 0 .. delta.shape[2] - 1, w \in 0 .. delta.shape[3] - 1 :
            ~BackOk(L, delta, h, w)
  THEN Raised(L, "ValueError")
  ELSE Returned([L EXCEPT !.gradW = BackDW(L, delta), !.cache = None],
                Crop(BackDX(L, delta), L.pad, -L.pad, L.pad, -L.pad))

\* convLayer.backward
convBackward(L, delta) ==
  IF L.cache = None
  THEN Raised(L, "AttributeError")   \* x.shape of None
  ELSE IF \E h \in 0 .. delta.shape[2] - 1, w \in 0 .. delta.shape[3] - 1 :
            ~BackOk(L, delta, h, w)
  THEN Raised(L, "ValueError")       \* operands could not be broadcast together
  ELSE Returned([L EXCEPT !.gradW = BackDW(L, delta)],
                Crop(BackDX(L, delta), L.pad, -L.pad, L.pad, -L.pad))

(***************************************************************************)
(* MaxPool                                                                 *)
(***************************************************************************)
\* output = np.zeros((x.shape[0], (x.shape[1]+1)//2, (x.shape[2]+1)//2))
PoolOutShape(x) == <<x.shape[1], (x.shape[2] + 1) \div 2, (x.shape[3] + 1) \div 2>>

\* Mutant of PoolMax: the maximum over all axes (np.amax(x_slice)) instead of
\* one maximum per channel.
PoolMaxAllChannels(x, d, i, j) ==
  LET vals == {At3(x, dd, r, q) :
                 dd \in 0 .. x.shape[1] - 1,
                 r \in 2 * i .. 2 * i + SliceLen(2 * i, 2 * i + 2, x.shape[2]) - 1,
                 q \in 2 * j .. 2 * j + SliceLen(2 * j, 2 * j + 2, x.shape[3]) - 1}
  IN CHOOSE m \in vals : \A u \in vals : m >= u

\* np.amax(x_slice, axis=(1,2))[d], x_slice = x[:, i*2:i*2+2, j*2:j*2+2]
PoolMax(x, d, i, j) ==
  LET vals == {At3(x, d, r, q) :
                 r \in 2 * i .. 2 * i + SliceLen(2 * i, 2 * i + 2, x.shape[2]) - 1,
                 q \in 2 * j .. 2 * j + SliceLen(2 * j, 2 * j + 2, x.shape[3]) - 1}
  IN CHOOSE m \in vals : \A u \in vals : m >= u

\* Mutant of PoolIdxMap: only the first maximum of a window is marked (an
\* argmax), not every tied one.
PoolIdxMapFirst(x, d, i, j, a, b) ==
  LET m == CHOOSE m \in {At3(x, d, 2 * i + u, 2 * j + v) : u, v \in 0 .. 1} :
             \A u, v \in 0 .. 1 : At3(x, d, 2 * i + u, 2 * j + v) <= m
      first == CHOOSE n \in 0 .. 3 :
                 /\ At3(x, d, 2 * i + (n \div 2), 2 * j + (n % 2)) = m
                 /\ \A n2 \in 0 .. n - 1 : At3(x, d, 2 * i + (n2 \div 2), 2 * j + (n2 % 2)) # m
  IN IF 2 * a + b = first THEN 1 ELSE 0

\* idx_map[d, a, b]: np.where(x_slice == output[:,i,j].reshape(-1,1,1), ones, zeros),
\* of shape (D,2,2) whatever the shape of x_slice, which is broadcast.
PoolIdxMap(x, d, i, j, a, b) ==
  LET hr == SliceLen(2 * i, 2 * i + 2, x.shape[2])
      wc == SliceLen(2 * j, 2 * j + 2, x.shape[3])
  IN IF At3(x, d, 2 * i + BIdx(hr, a), 2 * j + BIdx(wc, b)) = PoolMax(x, d, i, j)
     THEN 1 ELSE 0

\* self.cache[:, i*2:i*2+2, j*2:j*2+2] = idx_map broadcasts: the (D,2,2) map
\* fits the slice of the cache
PoolAssignOk(x, i, j) ==
  /\ InPlaceOk(SliceLen(2 * i, 2 * i + 2, x.shape[2]), 2)
  /\ InPlaceOk(SliceLen(2 * j, 2 * j + 2, x.shape[3]), 2)

\* The number of windows the loop "for i, for j" completes before the first
\* one whose assignment raises (all of them when none does).
PoolDone(x) ==
  LET oh == PoolOutShape(x)[2]
      ow == PoolOutShape(x)[3]
      bad == {n \in 0 .. oh * ow - 1 : ~PoolAssignOk(x, n \div ow, n % ow)}
  IN IF bad = {} THEN oh * ow ELSE CHOOSE n \in bad : \A m \in bad : n <= m

\* self.cache after the first n windows of the loop were written
PoolCache(x, n) ==
  LET ow == PoolOutShape(x)[3]
  IN T3(x.shape,
        LAMBDA d, r, q :
          IF (r \div 2) * ow + (q \div 2) < n
          THEN PoolIdxMap(x, d, r \div 2, q \div 2, r % 2, q % 2)
          ELSE 0)

\* MaxPool.__call__
poolCall(P, x) ==
  LET sh == PoolOutShape(x)
      n  == PoolDone(x)
  IN IF n < sh[2] * sh[3]
     THEN Raised([P EXCEPT !.cache = PoolCache(x, n)], "ValueError")
     ELSE Returned([P EXCEPT !.cache = PoolCache(x, n)],
                   T3(sh, LAMBDA d, i, j : PoolMax(x, d, i, j)))

\* Mutant of PoolScaled: the window of the cache is assigned (=) the delta
\* entry instead of multiplied (*=) by it.
PoolAssigned(P, d, dd, r, q) ==
  IF r \div 2 < d.shape[2] /\ q \div 2 < d.shape[3]
  THEN At3(d, BIdx(d.shape[1], dd), r \div 2, q \div 2)
  ELSE At3(P.cache, dd, r, q)

\* self.cache[:, i*2:i*2+2, j*2:j*2+2] *= d[:,i,j].reshape(-1,1,1), for every
\* position (i, j) of d: the value of the cache at [dd, r, q] afterwards
PoolScaled(P, d, dd, r, q) ==
  At3(P.cache, dd, r, q)
  * (IF r \div 2 < d.shape[2] /\ q \div 2 < d.shape[3]
     THEN At3(d, BIdx(d.shape[1], dd), r \div 2, q \div 2) ELSE 1)

\* Mutant of poolBackward: the product is a new array, the cache is kept.
poolBackwardFresh(P, d) ==
  IF P.cache = None
  THEN Raised(P, "AttributeError")
  ELSE IF d.shape[2] * d.shape[3] > 0 /\ ~InPlaceOk(P.cache.shape[1], d.shape[1])
  THEN Raised(P, "ValueError")
  ELSE Returned(P, T3(P.cache.shape, LAMBDA dd, r, q : PoolScaled(P, d, dd, r, q)))

\* MaxPool.backward: works on self.cache in place and returns that array
poolBackward(P, d) ==
  IF P.cache = None
  THEN Raised(P, "AttributeError")   \* self.cache.shape of None
  ELSE IF d.shape[2] * d.shape[3] > 0 /\ ~InPlaceOk(P.cache.shape[1], d.shape[1])
  THEN Raised(P, "ValueError")       \* non-broadcastable output operand
  ELSE LET c == T3(P.cache.shape, LAMBDA dd, r, q : PoolScaled(P, d, dd, r, q))
       IN Returned([P EXCEPT !.cache = c], c)

(***************************************************************************)
(* ReLU                                                                    *)
(***************************************************************************)
\* ReLU.__call__: y = np.maximum(x, 0.); self.cache = y; return y
reluCall(R, x) ==
  LET y == T3(x.shape, LAMBDA d, r, q : Max(At3(x, d, r, q), 0))
  IN Returned([R EXCEPT !.cache = y], y)

\* Mutant of reluBackward: the gate is cache >= 0 instead of cache > 0.
reluBackwardGe(R, y) ==
  IF R.cache = None \/ R.cache.shape # y.shape
  THEN Raised(R, "ValueError")
  ELSE Returned(R, T3(y.shape, LAMBDA d, r, q :
                        IF At3(R.cache, d, r, q) >= 0 THEN At3(y, d, r, q) ELSE 0))

\* ReLU.backward: np.where(self.cache > 0, 1, 0) * y
reluBackward(R, y) ==
  LET cs == R.cache.shape
      ys == y.shape
      sh == <<Bdim(cs[1], ys[1]), Bdim(cs[2], ys[2]), Bdim(cs[3], ys[3])>>
  IN IF R.cache = None
     THEN Raised(R, "TypeError")     \* None > 0
     ELSE IF sh[1] = -1 \/ sh[2] = -1 \/ sh[3] = -1
     THEN Raised(R, "ValueError")    \* operands could not be broadcast together
     ELSE Returned(R,
            T3(sh, LAMBDA d, r, q :
                 (IF At3(R.cache, BIdx(cs[1], d), BIdx(cs[2], r), BIdx(cs[3], q)) > 0
                  THEN 1 ELSE 0)
                 * At3(y, BIdx(ys[1], d), BIdx(ys[2], r), BIdx(ys[3], q))))

(***************************************************************************)
(* l2_loss.  x/784 is kept as the exact fraction: an array of numerators   *)
(* v with one denominator den; a scalar is num/den.                        *)
(***************************************************************************)
\* The constant of self.cache = (x-y)/784 and np.sum(0.5*(x-y)**2)/784
LossN == 784

\* (x - y)[d, r, q], x and y broadcast against each other
Residual(x, y, d, r, q) ==
  At3(x, BIdx(x.shape[1], d), BIdx(x.shape[2], r), BIdx(x.shape[3], q))
  - At3(y, BIdx(y.shape[1], d), BIdx(y.shape[2], r), BIdx(y.shape[3], q))

\* The shape of x - y (an axis of -1: the operands do not broadcast)
ResidualShape(x, y) ==
  <<Bdim(x.shape[1], y.shape[1]), Bdim(x.shape[2], y.shape[2]), Bdim(x.shape[3], y.shape[3])>>

\* np.sum of the squares of the n entries of x - y, of shape sh
SumSquares(x, y, sh) ==
  LET n == sh[1] * sh[2] * sh[3]
      sq == [e \in 0 .. n - 1 |->
               LET d == e \div (sh[2] * sh[3])
                   r == (e \div sh[3]) % sh[2]
                   q == e % sh[3]
               IN Residual(x, y, d, r, q) * Residual(x, y, d, r, q)]
  IN SumTo(sq, n)

\* Mutant of l2Call: the residuals are divided by the number of elements of
\* the prediction (a mean), the loss still by 784.
l2CallMean(L, x, y) ==
  LET sh == ResidualShape(x, y)
  IN IF sh[1] = -1 \/ sh[2] = -1 \/ sh[3] = -1
     THEN Raised(L, "ValueError")
     ELSE Returned([L EXCEPT !.cache =
                      [shape |-> sh,
                       v |-> [ix \in Idx3(sh) |-> Residual(x, y, ix[1], ix[2], ix[3])],
                       den |-> x.shape[1] * x.shape[2] * x.shape[3]]],
                   [num |-> SumSquares(x, y, sh), den |-> 2 * LossN])

\* l2_loss.__call__: self.cache = (x-y)/784; return np.sum(0.5*(x-y)**2)/784
l2Call(L, x, y) ==
  LET sh == ResidualShape(x, y)
  IN IF sh[1] = -1 \/ sh[2] = -1 \/ sh[3] = -1
     THEN Raised(L, "ValueError")    \* operands could not be broadcast together
     ELSE Returned([L EXCEPT !.cache =
                      [shape |-> sh,
                       v |-> [ix \in Idx3(sh) |-> Residual(x, y, ix[1], ix[2], ix[3])],
                       den |-> LossN]],
                   [num |-> SumSquares(x, y, sh), den |-> 2 * LossN])

\* l2_loss.backward: return self.cache (None when nothing was cached)
l2Backward(L) == Returned(L, L.cache)

(***************************************************************************)
(* The model of the notebook: conv1 -> rl1 -> conv2 -> maxpool -> rl2, and *)
(* the loss l2.                                                            *)
(***************************************************************************)
\* Scalars that are fractions: a - b, a / k for an integer k > 0, |a| <= k
FracSub(a, b) ==
  LET den == IF a.den % b.den = 0 THEN a.den
             ELSE IF b.den % a.den = 0 THEN b.den ELSE a.den * b.den
  IN [num |-> a.num * (den \div a.den) - b.num * (den \div b.den), den |-> den]
FracOver(a, k) == [num |-> a.num, den |-> a.den * k]
FracAbsLeq(a, k) == a.num <= k * a.den /\ -a.num <= k * a.den

\* An array of fractions with one denominator, and the array of its numerators
Over(t, den) == [shape |-> t.shape, v |-> t.v, den |-> den]
Num(t) == [shape |-> t.shape, v |-> t.v]

\* Mutant of ModelInit: conv2 has stride 1.
ModelInitStride1(seed1, seed2) ==
  [built |-> TRUE,
   conv1 |-> convLayerInit(3, 1, 3, 1, 1, seed1),
   conv2 |-> convLayerInit(3, 3, 1, 1, 1, seed2),
   maxpool |-> [cache |-> None],
   rl1 |-> [cache |-> None],
   rl2 |-> [cache |-> None],
   l2 |-> [cache |-> None]]

\* conv1 = convLayer(kernelsize = 3, inputDim=1, outDim=3, stride=1, pad=1), ...
ModelInit(seed1, seed2) ==
  [built |-> TRUE,
   conv1 |-> convLayerInit(3, 1, 3, 1, 1, seed1),
   conv2 |-> convLayerInit(3, 3, 1, 2, 1, seed2),
   maxpool |-> [cache |-> None],
   rl1 |-> [cache |-> None],
   rl2 |-> [cache |-> None],
   l2 |-> [cache |-> None]]

\* model_forward(x): the layers in order; an exception of a layer ends it.
\* Each layer's outcome is computed once and bound (r1 .. r5).
model_forward(M, x) ==
  CHOOSE out1 \in
    {IF r1.raised # "" THEN Raised(M, r1.raised) ELSE
     CHOOSE out2 \in
       {CHOOSE out3 \in
          {IF r3.raised # ""
           THEN Raised([M EXCEPT !.conv1 = r1.obj, !.rl1 = r2.obj], r3.raised) ELSE
           CHOOSE out4 \in
             {IF r4.raised # ""
              THEN Raised([M EXCEPT !.conv1 = r1.obj, !.rl1 = r2.obj, !.conv2 = r3.obj,
                                    !.maxpool = r4.obj], r4.raised) ELSE
              CHOOSE out5 \in
                {Returned([M EXCEPT !.conv1 = r1.obj, !.rl1 = r2.obj, !.conv2 = r3.obj,
                                    !.maxpool = r4.obj, !.rl2 = r5.obj], r5.ret)
                   : r5 \in {reluCall(M.rl2, r4.ret)}} : TRUE
                : r4 \in {poolCall(M.maxpool, r3.ret)}} : TRUE
             : r3 \in {convCall(M.conv2, r2.ret)}} : TRUE
          : r2 \in {reluCall(M.rl1, r1.ret)}} : TRUE
       : r1 \in {convCall(M.conv1, x)}} : TRUE

\* logits = model_forward(x); cost = l2(logits, y)
ModelCost(M, x, y) ==
  CHOOSE out \in
    {IF f.raised # "" THEN f ELSE
     CHOOSE outc \in
       {IF c.raised # "" THEN Raised(f.obj, c.raised)
        ELSE Returned([f.obj EXCEPT !.l2 = c.obj], c.ret)
          : c \in {l2Call(f.obj.l2, f.ret, y)}} : TRUE
       : f \in {model_forward(M, x)}} : TRUE

\* model_backward(): delta is passed on layer by layer, from the loss back to
\* conv1.  delta is an array of fractions of denominator l2.cache.den; the
\* layers' backward passes are linear in delta and act on its numerators.
\* Each layer's outcome is computed once and bound (b1 .. b5).
model_backward(M) ==
  CHOOSE out0 \in
    {IF d0 = None THEN Raised(M, "TypeError") ELSE   \* ... * None
     CHOOSE out1 \in
       {IF b1.raised # "" THEN Raised(M, b1.raised) ELSE
        CHOOSE out2 \in
          {IF b2.raised # "" THEN Raised(M, b2.raised) ELSE
           CHOOSE out3 \in
             {IF b3.raised # "" THEN Raised([M EXCEPT !.maxpool = pool], b3.raised) ELSE
              CHOOSE out4 \in
                {IF b4.raised # ""
                 THEN Raised([M EXCEPT !.maxpool = pool, !.conv2 = c2], b4.raised) ELSE
                 CHOOSE out5 \in
                   {IF b5.raised # ""
                    THEN Raised([M EXCEPT !.maxpool = pool, !.conv2 = c2], b5.raised)
                    ELSE Returned([M EXCEPT !.maxpool = pool, !.conv2 = c2,
                                     !.conv1 = [b5.obj EXCEPT
                                                  !.gradW = Over(b5.obj.gradW, d0.den)]],
                                  None)
                      : b5 \in {convBackward(M.conv1, b4.ret)}} : TRUE
                   : b4 \in {reluBackward(M.rl1, b3.ret)},
                     c2 \in {[b3.obj EXCEPT !.gradW = Over(b3.obj.gradW, d0.den)]}} : TRUE
                : b3 \in {convBackward(M.conv2, b2.ret)},
                  pool \in {[b2.obj EXCEPT !.cache = Over(b2.obj.cache, d0.den)]}} : TRUE
             : b2 \in {poolBackward(M.maxpool, b1.ret)}} : TRUE
          : b1 \in {reluBackward(M.rl2, Num(d0))}} : TRUE
       : d0 \in {l2Backward(M.l2).ret}} : TRUE

(***************************************************************************)
(* State machine of one convLayer object.                                  *)
(***************************************************************************)
InitConv ==
  /\ \E k \in Kernels, D \in Channels, C \in Channels, s \in Strides,
        p \in Pads, seed \in 1 .. MaxSeed :
       conv = convLayerInit(k, D, C, s, p, seed)
  /\ maxpool = [cache |-> None]
  /\ relu = [cache |-> None]
  /\ l2 = [cache |-> None]
  /\ call = NoCall
  /\ poolPrev = NoCall
  /\ ncalls = 0
  /\ prev = NoCall
  /\ hist = <<>>
  /\ fcnn = NoScript
  /\ model = NoModel
  /\ gc = NoCheck

\* The deltas backward is called with: of the shape of the output the latest
\* forward call returned, or one column or row longer, for either channel count.
ForwardOut(L) ==
  IF L.cache = None THEN 1 ELSE Max(0, OutputSize(L, L.cache.shape[2] - 2 * L.pad))
DeltaShapes(L) ==
  Channels \X {ForwardOut(L), ForwardOut(L) + 1} \X {ForwardOut(L), ForwardOut(L) + 1}
Deltas(L) == {Gen3(sh, seed) : sh \in DeltaShapes(L), seed \in 1 .. MaxSeed}

ConvForward ==
  /\ ncalls < MaxCalls
  /\ \E x \in Arrays :
       LET r == convCall(conv, x) IN
         /\ conv' = r.obj
         /\ call' = [op |-> "conv.forward", arg |-> x, raised |-> r.raised, ret |-> r.ret]
  /\ ncalls' = ncalls + 1
  /\ UNCHANGED <<fcnn, hist, maxpool, relu, l2, poolPrev, prev, model, gc>>

ConvBackward ==
  /\ ncalls < MaxCalls
  /\ \E delta \in Deltas(conv) :
       LET r == convBackward(conv, delta) IN
         /\ conv' = r.obj
         /\ call' = [op |-> "conv.backward", arg |-> delta, raised |-> r.raised,
                     ret |-> r.ret]
  /\ ncalls' = ncalls + 1
  /\ UNCHANGED <<fcnn, hist, maxpool, relu, l2, poolPrev, prev, model, gc>>

NextConv == ConvForward \/ ConvBackward

SpecConv == InitConv /\ [][NextConv]_vars

(***************************************************************************)
(* State machine of one MaxPool object.                                    *)
(***************************************************************************)
InitPool ==
  /\ conv = convLayerInit(1, 1, 1, 1, 0, 1)
  /\ maxpool = [cache |-> None]
  /\ relu = [cache |-> None]
  /\ l2 = [cache |-> None]
  /\ call = NoCall
  /\ poolPrev = NoCall
  /\ ncalls = 0
  /\ prev = NoCall
  /\ hist = <<>>
  /\ fcnn = NoScript
  /\ model = NoModel
  /\ gc = NoCheck

\* The deltas backward is called with: of the shape of the output of the
\* latest forward call, or one row longer, for either channel count.
PoolDeltaShapes(P) ==
  LET sh == IF P.cache = None THEN <<1, 1, 1>> ELSE PoolOutShape(P.cache)
  IN Channels \X {sh[2], sh[2] + 1} \X {sh[3]}
PoolDeltas(P) == {Gen3(sh, seed) : sh \in PoolDeltaShapes(P), seed \in 1 .. MaxSeed}

PoolForward ==
  /\ ncalls < MaxCalls
  /\ \E x \in PoolArrays :
       LET r == poolCall(maxpool, x) IN
         /\ maxpool' = r.obj
         /\ call' = [op |-> "maxpool.forward", arg |-> x, raised |-> r.raised,
                     ret |-> r.ret]
  /\ poolPrev' = call
  /\ ncalls' = ncalls + 1
  /\ UNCHANGED <<fcnn, hist, conv, relu, l2, prev, model, gc>>

PoolBackward ==
  /\ ncalls < MaxCalls
  /\ \E d \in PoolDeltas(maxpool) :
       LET r == poolBackward(maxpool, d) IN
         /\ maxpool' = r.obj
         /\ call' = [op |-> "maxpool.backward", arg |-> d, raised |-> r.raised,
                     ret |-> r.ret]
  /\ poolPrev' = call
  /\ ncalls' = ncalls + 1
  /\ UNCHANGED <<fcnn, hist, conv, relu, l2, prev, model, gc>>

NextPool == PoolForward \/ PoolBackward

SpecPool == InitPool /\ [][NextPool]_vars

(***************************************************************************)
(* State machine of one ReLU object.                                       *)
(***************************************************************************)
InitReLU == InitPool

ReLUForward ==
  /\ ncalls < MaxCalls
  /\ \E x \in Arrays :
       LET r == reluCall(relu, x) IN
         /\ relu' = r.obj
         /\ call' = [op |-> "relu.forward", arg |-> x, raised |-> r.raised, ret |-> r.ret]
  /\ ncalls' = ncalls + 1
  /\ UNCHANGED <<fcnn, hist, conv, maxpool, l2, poolPrev, prev, model, gc>>

ReLUBackward ==
  /\ ncalls < MaxCalls
  /\ \E y \in Arrays :
       LET r == reluBackward(relu, y) IN
         /\ relu' = r.obj
         /\ call' = [op |-> "relu.backward", arg |-> y, raised |-> r.raised, ret |-> r.ret]
  /\ ncalls' = ncalls + 1
  /\ UNCHANGED <<fcnn, hist, conv, maxpool, l2, poolPrev, prev, model, gc>>

NextReLU == ReLUForward \/ ReLUBackward

SpecReLU == InitReLU /\ [][NextReLU]_vars

(***************************************************************************)
(* State machine of one l2_loss object.                                    *)
(***************************************************************************)
MaxLossSize == 2

InitL2 == InitPool

\* The predictions and targets the loss is called with.
LossShapes == Channels \X (1 .. MaxLossSize) \X (1 .. MaxLossSize)
Predictions == {Gen3(sh, seed) : sh \in LossShapes, seed \in 1 .. MaxSeed}
Targets == {Gen3(sh, seed + 1) : sh \in LossShapes, seed \in 1 .. MaxSeed}

L2Forward ==
  /\ ncalls < MaxCalls
  /\ \E x \in Predictions, y \in Targets :
       LET r == l2Call(l2, x, y) IN
         /\ l2' = r.obj
         /\ call' = [op |-> "l2.forward", arg |-> x, target |-> y, raised |-> r.raised,
                     ret |-> r.ret]
  /\ ncalls' = ncalls + 1
  /\ UNCHANGED <<fcnn, hist, conv, maxpool, relu, poolPrev, prev, model, gc>>

L2Backward ==
  /\ ncalls < MaxCalls
  /\ LET r == l2Backward(l2) IN
       /\ l2' = r.obj
       /\ call' = [op |-> "l2.backward", arg |-> None, raised |-> r.raised, ret |-> r.ret]
  /\ ncalls' = ncalls + 1
  /\ UNCHANGED <<fcnn, hist, conv, maxpool, relu, poolPrev, prev, model, gc>>

NextL2 == L2Forward \/ L2Backward

SpecL2 == InitL2 /\ [][NextL2]_vars

(***************************************************************************)
(* The gradient check of the notebook: for each layer of [conv1, conv2]    *)
(* and each element W[c,d,i,j] of its weights, in loop order, a central    *)
(* difference of the cost is compared with gradW[c,d,i,j].  gc.pc is the   *)
(* position in the loop body; gc.W0, gc.passes and gc.examined record, for *)
(* the properties, the weights before the check, the passes run for the    *)
(* current element with the weights they ran at, and the elements whose    *)
(* assertion was evaluated.                                                *)
(***************************************************************************)
\* epsilon, the step of the finite differences and the tolerance, in units of
\* the integer grid the weights are on (1e-7 in the notebook)
Eps == 1
\* The side of the target y; the image x has four times that side
\* ((1,7,7) and (1,28,28) in the notebook)
TargetSize == 1
MaxCheckSeed == 2

\* x = np.random.normal(0,1,(1,28,28)): an image with values in
\* -2*Amplitude .. 2*Amplitude
Amplitude == 4
Image(seed) ==
  LET t == Gen3(<<1, 4 * TargetSize, 4 * TargetSize>>, seed)
  IN T3(t.shape, LAMBDA d, r, q : Amplitude * At3(t, d, r, q))

\* enumerate([conv1, conv2])
Layer(M, l) == IF l = 1 THEN M.conv1 ELSE M.conv2
SetLayer(M, l, L) == IF l = 1 THEN [M EXCEPT !.conv1 = L] ELSE [M EXCEPT !.conv2 = L]

\* The n-th index (c,d,i,j) of "for c, for d, for i, for j" over w_orig.shape
ElemIdx(L, n) ==
  LET sh == L.W.shape
  IN <<n \div (sh[2] * sh[3] * sh[4]), (n \div (sh[3] * sh[4])) % sh[2],
       (n \div sh[4]) % sh[3], n % sh[4]>>
NumElems(L) == L.W.shape[1] * L.W.shape[2] * L.W.shape[3] * L.W.shape[4]

\* layer.W[c,d,i,j] = val
SetWeight(M, l, n, val) ==
  SetLayer(M, l, [Layer(M, l) EXCEPT !.W.v[ElemIdx(Layer(M, l), n)] = val])
\* layer.W[c,d,i,j]
Weight(M, l, n) == Layer(M, l).W.v[ElemIdx(Layer(M, l), n)]

\* Mutant of WeightMinus: the step is taken from the current (perturbed) value.
WeightMinusFromCurrent(orig, cur) == cur - Eps
\* orig - epsilon
WeightMinus(orig, cur) == orig - Eps

\* Mutant of WeightRestored: the weight is left as the last pass had it.
WeightLeft(orig, cur) == cur
\* layer.W[c,d,i,j] = orig
WeightRestored(orig, cur) == orig

\* The weights of both layers, as the passes record them
Weights(M) == <<M.conv1.W, M.conv2.W>>

InitCheck ==
  /\ \E seed1, seed2, seedx \in 1 .. MaxCheckSeed :
       /\ model = ModelInit(seed1, seed2)
       /\ gc = [pc |-> "plus", l |-> 1, n |-> 0, orig |-> 0,
                cost1 |-> [num |-> 0, den |-> 1], cost2 |-> [num |-> 0, den |-> 1],
                gradient_approximation |-> [num |-> 0, den |-> 1],
                exc |-> "",
                x |-> Image(seedx),
                y |-> Gen3(<<1, TargetSize, TargetSize>>, seedx + 1),
                W0 |-> Weights(ModelInit(seed1, seed2)),
                passes |-> <<>>, examined |-> <<>>]
  /\ conv = convLayerInit(1, 1, 1, 1, 0, 1)
  /\ maxpool = [cache |-> None]
  /\ relu = [cache |-> None]
  /\ l2 = [cache |-> None]
  /\ call = NoCall
  /\ poolPrev = NoCall
  /\ prev = NoCall
  /\ hist = <<>>
  /\ fcnn = NoScript
  /\ ncalls = 0

\* A forward pass of the loop body, with layer.W[c,d,i,j] set to val first:
\* the model after it, and the check with the pass recorded; an exception of
\* the pass ends the check.
CostPass(val, next) ==
  CHOOSE out \in
    {CHOOSE outr \in
       {[model |-> r.obj, cost |-> r.ret,
         gc |-> IF r.raised # ""
                THEN [gc EXCEPT !.passes = Append(@, [pass |-> "forward", W |-> Weights(M)]),
                                !.pc = "raised", !.exc = r.raised]
                ELSE [gc EXCEPT !.passes = Append(@, [pass |-> "forward", W |-> Weights(M)]),
                                !.pc = next]]
          : r \in {ModelCost(M, gc.x, gc.y)}} : TRUE
       : M \in {SetWeight(model, gc.l, gc.n, val)}} : TRUE

\* orig = layer.W[c,d,i,j].copy(); layer.W[c,d,i,j] = orig + epsilon;
\* logits = model_forward(x); cost1 = l2(logits, y)
CheckPlus ==
  /\ gc.pc = "plus"
  /\ \E orig \in {Weight(model, gc.l, gc.n)} :
       \E p \in {CostPass(orig + Eps, "minus")} :
         /\ model' = p.model
         /\ gc' = IF p.gc.pc = "raised" THEN [p.gc EXCEPT !.orig = orig, !.passes = <<>>]
                  ELSE [p.gc EXCEPT !.orig = orig, !.cost1 = p.cost,
                                    !.passes = <<p.gc.passes[Len(p.gc.passes)]>>]
  /\ UNCHANGED <<fcnn, hist, conv, maxpool, relu, l2, call, poolPrev, ncalls, prev>>

\* layer.W[c,d,i,j] = orig - epsilon; logits = model_forward(x);
\* cost2 = l2(logits, y); gradient_approximation = (cost1 - cost2) / (2 * epsilon)
CheckMinus ==
  /\ gc.pc = "minus"
  /\ \E p \in {CostPass(WeightMinus(gc.orig, Weight(model, gc.l, gc.n)), "actual")} :
       /\ model' = p.model
       /\ gc' = IF p.gc.pc = "raised" THEN p.gc
                ELSE [p.gc EXCEPT !.cost2 = p.cost,
                        !.gradient_approximation =
                           FracOver(FracSub(gc.cost1, p.cost), 2 * Eps)]
  /\ UNCHANGED <<fcnn, hist, conv, maxpool, relu, l2, call, poolPrev, ncalls, prev>>

\* Mutant of CheckActual: no forward pass at the original weights; the backward
\* pass follows the pass at orig - epsilon.
CheckActualSkipped ==
  /\ gc.pc = "actual"
  /\ model' = SetWeight(model, gc.l, gc.n, gc.orig)
  /\ gc' = [gc EXCEPT !.pc = "backward"]
  /\ UNCHANGED <<fcnn, hist, conv, maxpool, relu, l2, call, poolPrev, ncalls, prev>>

\* layer.W[c,d,i,j] = orig; logits = model_forward(x); loss = l2(logits,y)
CheckActual ==
  /\ gc.pc = "actual"
  /\ \E p \in {CostPass(WeightRestored(gc.orig, Weight(model, gc.l, gc.n)), "backward")} :
       /\ model' = p.model
       /\ gc' = p.gc
  /\ UNCHANGED <<fcnn, hist, conv, maxpool, relu, l2, call, poolPrev, ncalls, prev>>

\* model_backward()
CheckBackward ==
  /\ gc.pc = "backward"
  /\ \E r \in {model_backward(model)} :
       LET g == [gc EXCEPT !.passes = Append(@, [pass |-> "backward", W |-> Weights(model)])]
       IN /\ model' = r.obj
          /\ gc' = IF r.raised # "" THEN [g EXCEPT !.pc = "raised", !.exc = r.raised]
                   ELSE [g EXCEPT !.pc = "assert"]
  /\ UNCHANGED <<fcnn, hist, conv, maxpool, relu, l2, call, poolPrev, ncalls, prev>>

\* gradient_approximation - layer.gradW[c, d, i, j]
Difference(M, g) ==
  LET gradW == Layer(M, g.l).gradW
  IN FracSub(g.gradient_approximation,
             [num |-> gradW.v[ElemIdx(Layer(M, g.l), g.n)], den |-> gradW.den])

\* difference = ...; assert abs(difference) <= epsilon, and on to the next
\* element of the loops "for l, layer", "for c", "for d", "for i", "for j";
\* after the last one the notebook prints that the gradients agree.
CheckAssert ==
  /\ gc.pc = "assert"
  /\ LET g == [gc EXCEPT !.examined = Append(@, <<gc.l, gc.n>>)]
     IN gc' = IF ~FracAbsLeq(Difference(model, gc), Eps)
              THEN [g EXCEPT !.pc = "raised", !.exc = "AssertionError"]
              ELSE IF gc.n + 1 < NumElems(Layer(model, gc.l))
              THEN [g EXCEPT !.pc = "plus", !.n = gc.n + 1]
              ELSE IF gc.l < 2
              THEN [g EXCEPT !.pc = "plus", !.l = gc.l + 1, !.n = 0]
              ELSE [g EXCEPT !.pc = "done"]
  /\ UNCHANGED <<fcnn, hist, model, conv, maxpool, relu, l2, call, poolPrev, ncalls, prev>>

NextCheck == CheckPlus \/ CheckMinus \/ CheckActual \/ CheckBackward \/ CheckAssert

SpecCheck == InitCheck /\ [][NextCheck]_vars

(***************************************************************************)
(* One forward pass, the loss and one backward pass of the notebook's      *)
(* model, a layer call at a time.  gc.pc is the call to make next, call    *)
(* the latest call, gc.log the calls made with the shapes of their         *)
(* argument and result, gc.x and gc.y the image and the target.            *)
(***************************************************************************)
\* The sides of the image x; the target y has a quarter of the side
\* ((1,28,28) and (1,7,7) in the notebook)
ImageSides == {4, 8, 28}

\* The shape of a value (() for a scalar)
ShapeOf(v) == IF "shape" \in DOMAIN v THEN v.shape ELSE <<>>

InitStack ==
  /\ \E side \in ImageSides, seed1, seed2 \in 1 .. MaxCheckSeed :
       /\ model = ModelInit(seed1, seed2)
       /\ gc = [pc |-> "conv1",
                x |-> Gen3(<<1, side, side>>, seed1),
                y |-> Gen3(<<1, side \div 4, side \div 4>>, seed2 + 1),
                log |-> <<>>]
  /\ conv = convLayerInit(1, 1, 1, 1, 0, 1)
  /\ maxpool = [cache |-> None]
  /\ relu = [cache |-> None]
  /\ l2 = [cache |-> None]
  /\ call = NoCall
  /\ poolPrev = NoCall
  /\ prev = NoCall
  /\ hist = <<>>
  /\ fcnn = NoScript
  /\ ncalls = 0

\* The call op(a) had the outcome r and left the model as M; next is the
\* call after it.  An exception ends the pass.
StackCalled(op, a, r, M, next) ==
  /\ model' = M
  /\ call' = [op |-> op, arg |-> a, raised |-> r.raised, ret |-> r.ret]
  /\ gc' = [gc EXCEPT !.pc = IF r.raised # "" THEN "raised" ELSE next,
                      !.log = Append(@, [op |-> op, arg |-> ShapeOf(a),
                                         ret |-> ShapeOf(r.ret)])]
  /\ UNCHANGED <<fcnn, hist, conv, maxpool, relu, l2, poolPrev, ncalls, prev>>

\* logits = conv1(x)
StackConv1 ==
  /\ gc.pc = "conv1"
  /\ \E r \in {convCall(model.conv1, gc.x)} :
       StackCalled("conv1.forward", gc.x, r, [model EXCEPT !.conv1 = r.obj], "rl1")

\* logits = rl1(logits)
StackRl1 ==
  /\ gc.pc = "rl1"
  /\ \E r \in {reluCall(model.rl1, call.ret)} :
       StackCalled("rl1.forward", call.ret, r, [model EXCEPT !.rl1 = r.obj], "conv2")

\* logits = conv2(logits)
StackConv2 ==
  /\ gc.pc = "conv2"
  /\ \E r \in {convCall(model.conv2, call.ret)} :
       StackCalled("conv2.forward", call.ret, r, [model EXCEPT !.conv2 = r.obj], "maxpool")

\* logits = maxpool(logits)
StackMaxpool ==
  /\ gc.pc = "maxpool"
  /\ \E r \in {poolCall(model.maxpool, call.ret)} :
       StackCalled("maxpool.forward", call.ret, r, [model EXCEPT !.maxpool = r.obj], "rl2")

\* logits = rl2(logits)
StackRl2 ==
  /\ gc.pc = "rl2"
  /\ \E r \in {reluCall(model.rl2, call.ret)} :
       StackCalled("rl2.forward", call.ret, r, [model EXCEPT !.rl2 = r.obj], "l2")

\* loss = l2(logits, y)
StackLoss ==
  /\ gc.pc = "l2"
  /\ \E r \in {l2Call(model.l2, call.ret, gc.y)} :
       StackCalled("l2.forward", call.ret, r, [model EXCEPT !.l2 = r.obj], "l2.backward")

\* delta = l2.backward()
StackLossBack ==
  /\ gc.pc = "l2.backward"
  /\ \E r \in {l2Backward(model.l2)} :
       StackCalled("l2.backward", None, r, [model EXCEPT !.l2 = r.obj], "rl2.backward")

\* The outcome r of a backward call on the numerators of a delta of
\* denominator den: the result with that denominator
OverDelta(r, den) ==
  IF r.raised # "" THEN r ELSE [r EXCEPT !.ret = Over(r.ret, den)]

\* delta = rl2.backward(delta)
StackRl2Back ==
  /\ gc.pc = "rl2.backward"
  /\ \E r \in {IF call.ret = None THEN Raised(model.rl2, "TypeError")
               ELSE OverDelta(reluBackward(model.rl2, Num(call.ret)), call.ret.den)} :
       StackCalled("rl2.backward", call.ret, r, [model EXCEPT !.rl2 = r.obj],
                   "maxpool.backward")

\* delta = maxpool.backward(delta)
StackMaxpoolBack ==
  /\ gc.pc = "maxpool.backward"
  /\ \E r \in {OverDelta(poolBackward(model.maxpool, Num(call.ret)), call.ret.den)} :
       StackCalled("maxpool.backward", call.ret, r,
                   [model EXCEPT !.maxpool =
                      IF r.raised # "" THEN r.obj
                      ELSE [r.obj EXCEPT !.cache = Over(@, call.ret.den)]],
                   "conv2.backward")

\* delta = conv2.backward(delta)
StackConv2Back ==
  /\ gc.pc = "conv2.backward"
  /\ \E r \in {OverDelta(convBackward(model.conv2, Num(call.ret)), call.ret.den)} :
       StackCalled("conv2.backward", call.ret, r,
                   [model EXCEPT !.conv2 =
                      IF r.raised # "" THEN r.obj
                      ELSE [r.obj EXCEPT !.gradW = Over(@, call.ret.den)]],
                   "rl1.backward")

\* delta = rl1.backward(delta)
StackRl1Back ==
  /\ gc.pc = "rl1.backward"
  /\ \E r \in {OverDelta(reluBackward(model.rl1, Num(call.ret)), call.ret.den)} :
       StackCalled("rl1.backward", call.ret, r, [model EXCEPT !.rl1 = r.obj],
                   "conv1.backward")

\* delta = conv1.backward(delta)
StackConv1Back ==
  /\ gc.pc = "conv1.backward"
  /\ \E r \in {OverDelta(convBackward(model.conv1, Num(call.ret)), call.ret.den)} :
       StackCalled("conv1.backward", call.ret, r,
                   [model EXCEPT !.conv1 =
                      IF r.raised # "" THEN r.obj
                      ELSE [r.obj EXCEPT !.gradW = Over(@, call.ret.den)]],
                   "done")

NextStack ==
  \/ StackConv1 \/ StackRl1 \/ StackConv2 \/ StackMaxpool \/ StackRl2 \/ StackLoss
  \/ StackLossBack \/ StackRl2Back \/ StackMaxpoolBack \/ StackConv2Back
  \/ StackRl1Back \/ StackConv1Back

SpecStack == InitStack /\ [][NextStack]_vars

(***************************************************************************)
(* One convLayer object used for a forward call followed by backward       *)
(* calls; prev keeps the call before the latest one.                       *)
(***************************************************************************)
MaxDeltaSeed == 2

InitRepeat == InitConv

\* The deltas handed to the backward calls: more than one of each shape
RepeatDeltas(L) == {Gen3(sh, seed) : sh \in DeltaShapes(L), seed \in 1 .. MaxDeltaSeed}

RepeatForward ==
  /\ ncalls = 0
  /\ \E x \in Arrays :
       \E r \in {convCall(conv, x)} :
         /\ conv' = r.obj
         /\ call' = [op |-> "conv.forward", arg |-> x, raised |-> r.raised, ret |-> r.ret]
  /\ prev' = call
  /\ ncalls' = ncalls + 1
  /\ UNCHANGED <<fcnn, hist, maxpool, relu, l2, poolPrev, model, gc>>

RepeatBackward ==
  /\ ncalls >= 1 /\ ncalls < MaxCalls
  /\ \E delta \in RepeatDeltas(conv) :
       \E r \in {convBackward(conv, delta)} :
         /\ conv' = r.obj
         /\ call' = [op |-> "conv.backward", arg |-> delta, raised |-> r.raised,
                     ret |-> r.ret]
  /\ prev' = call
  /\ ncalls' = ncalls + 1
  /\ UNCHANGED <<fcnn, hist, maxpool, relu, l2, poolPrev, model, gc>>

NextRepeat == RepeatForward \/ RepeatBackward

SpecRepeat == InitRepeat /\ [][NextRepeat]_vars

(***************************************************************************)
(* One convLayer object on which two forward/backward cycles overlap: two  *)
(* forward calls, then a backward call; hist keeps the three calls.        *)
(***************************************************************************)
InitOverlap == InitConv

OverlapForward ==
  /\ ncalls < 2
  /\ ncalls = 1 => call.raised = ""
  /\ \E x \in Arrays :
       \E r \in {convCall(conv, x)} :
         /\ conv' = r.obj
         /\ call' = [op |-> "conv.forward", arg |-> x, raised |-> r.raised, ret |-> r.ret]
         /\ hist' = Append(hist, [op |-> "conv.forward", arg |-> x, raised |-> r.raised,
                                  ret |-> r.ret])
  /\ ncalls' = ncalls + 1
  /\ UNCHANGED <<fcnn, maxpool, relu, l2, poolPrev, prev, model, gc>>

OverlapBackward ==
  /\ ncalls = 2
  /\ \E delta \in Deltas(conv) :
       \E r \in {convBackward(conv, delta)} :
         /\ conv' = r.obj
         /\ call' = [op |-> "conv.backward", arg |-> delta, raised |-> r.raised,
                     ret |-> r.ret]
         /\ hist' = Append(hist, [op |-> "conv.backward", arg |-> delta,
                                  raised |-> r.raised, ret |-> r.ret])
  /\ ncalls' = ncalls + 1
  /\ UNCHANGED <<fcnn, maxpool, relu, l2, poolPrev, prev, model, gc>>

NextOverlap == OverlapForward \/ OverlapBackward

SpecOverlap == InitOverlap /\ [][NextOverlap]_vars

(***************************************************************************)
(* The numerical task of src/FCNN/FCNN.ipynb: a fully-connected network    *)
(* with two hidden layers, its forward pass, backward pass and weight      *)
(* update.  A matrix is the tuple of its rows, a column vector the tuple   *)
(* of its entries.  The script has x = (1,-1) and target = 1; here they    *)
(* are drawn from small ranges.                                            *)
(***************************************************************************)
MaxInput == 2
MaxTarget == 2

\* w1 = np.array([[3,-3], [2,-2], [1,-1]]), ...
w1 == <<<<3, -3>>, <<2, -2>>, <<1, -1>>>>
w2 == <<<<-1, -3, 2>>, <<1, 3, 2>>>>
w3 == <<<<-1, 1>>>>
b1 == <<1, 2, 3>>
b2 == <<1, 0>>
b3 == <<2>>

\* np.sum over a tuple
SumSeq(v) == SumTo([i \in 0 .. Len(v) - 1 |-> v[i + 1]], Len(v))

\* w @ v, w.transpose() @ d and d @ a.transpose() for column vectors v, d, a
MatVec(w, v) == [i \in 1 .. Len(w) |-> SumSeq([j \in 1 .. Len(v) |-> w[i][j] * v[j]])]
TransposeMatVec(w, d) ==
  [j \in 1 .. Len(w[1]) |-> SumSeq([i \in 1 .. Len(w) |-> w[i][j] * d[i]])]
Outer(d, a) == [i \in 1 .. Len(d) |-> [j \in 1 .. Len(a) |-> d[i] * a[j]]]
VecAdd(u, v) == [i \in 1 .. Len(u) |-> u[i] + v[i]]
VecSub(u, v) == [i \in 1 .. Len(u) |-> u[i] - v[i]]
VecMul(u, v) == [i \in 1 .. Len(u) |-> u[i] * v[i]]
MatSub(u, v) == [i \in 1 .. Len(u) |-> VecSub(u[i], v[i])]

\* np.maximum(0, z)
ReLU_forward(z) == [i \in 1 .. Len(z) |-> Max(0, z[i])]

\* Mutant of ReLU_backward: the derivative is 1 at 0.
ReLU_backwardGe(intermediate_a) ==
  [i \in 1 .. Len(intermediate_a) |-> IF intermediate_a[i] >= 0 THEN 1 ELSE 0]

\* np.where(intermediate_a > 0, 1, 0)
ReLU_backward(intermediate_a) ==
  [i \in 1 .. Len(intermediate_a) |-> IF intermediate_a[i] > 0 THEN 1 ELSE 0]

\* 1./2. * (y - target)**2, per entry, as a fraction
MSE(y, target) ==
  [i \in 1 .. Len(y) |-> [num |-> (y[i] - target) * (y[i] - target), den |-> 2]]

InitFCNN ==
  /\ \E x1, x2 \in -MaxInput .. MaxInput, target \in 0 .. MaxTarget :
       fcnn = [pc |-> "forward", w1 |-> w1, w2 |-> w2, w3 |-> w3,
               b1 |-> b1, b2 |-> b2, b3 |-> b3, x |-> <<x1, x2>>, target |-> target]
  /\ conv = convLayerInit(1, 1, 1, 1, 0, 1)
  /\ maxpool = [cache |-> None]
  /\ relu = [cache |-> None]
  /\ l2 = [cache |-> None]
  /\ call = NoCall
  /\ poolPrev = NoCall
  /\ ncalls = 0
  /\ prev = NoCall
  /\ hist = <<>>
  /\ model = NoModel
  /\ gc = NoCheck

\* The forward pass: a1, a2, a3 and the loss
FCNNForward ==
  /\ fcnn.pc = "forward"
  /\ \E a1 \in {ReLU_forward(VecAdd(MatVec(fcnn.w1, fcnn.x), fcnn.b1))} :
       \E a2 \in {ReLU_forward(VecAdd(MatVec(fcnn.w2, a1), fcnn.b2))} :
         \E a3 \in {ReLU_forward(VecAdd(MatVec(fcnn.w3, a2), fcnn.b3))} :
           fcnn' = [pc |-> "backward", a1 |-> a1, a2 |-> a2, a3 |-> a3,
                    loss |-> MSE(a3, fcnn.target)] @@ fcnn
  /\ UNCHANGED <<conv, maxpool, relu, l2, call, poolPrev, ncalls, prev, model, gc, hist>>

\* The backward pass: delta3, dw3, db3, delta2, dw2, db2, delta1, dw1, db1
FCNNBackward ==
  /\ fcnn.pc = "backward"
  /\ \E delta3 \in {VecMul([i \in 1 .. Len(fcnn.a3) |-> fcnn.a3[i] - fcnn.target],
                           ReLU_backward(fcnn.a3))} :
       \E delta2 \in {VecMul(ReLU_backward(fcnn.a2), TransposeMatVec(fcnn.w3, delta3))} :
         \E delta1 \in {VecMul(ReLU_backward(fcnn.a1), TransposeMatVec(fcnn.w2, delta2))} :
           fcnn' = [pc |-> "update",
                    delta3 |-> delta3, dw3 |-> Outer(delta3, fcnn.a2), db3 |-> delta3,
                    delta2 |-> delta2, dw2 |-> Outer(delta2, fcnn.a1), db2 |-> delta2,
                    delta1 |-> delta1, dw1 |-> Outer(delta1, fcnn.x), db1 |-> delta1]
                   @@ fcnn
  /\ UNCHANGED <<conv, maxpool, relu, l2, call, poolPrev, ncalls, prev, model, gc, hist>>

\* The weight update: w1 -= dw1, ..., b3 -= db3
FCNNUpdate ==
  /\ fcnn.pc = "update"
  /\ fcnn' = [fcnn EXCEPT !.pc = "done",
                          !.w1 = MatSub(@, fcnn.dw1), !.w2 = MatSub(@, fcnn.dw2),
                          !.w3 = MatSub(@, fcnn.dw3), !.b1 = VecSub(@, fcnn.db1),
                          !.b2 = VecSub(@, fcnn.db2), !.b3 = VecSub(@, fcnn.db3)]
  /\ UNCHANGED <<conv, maxpool, relu, l2, call, poolPrev, ncalls, prev, model, gc, hist>>

NextFCNN == FCNNForward \/ FCNNBackward \/ FCNNUpdate

SpecFCNN == InitFCNN /\ [][NextFCNN]_vars

(***************************************************************************)
(* Properties of convLayer (checked under SpecConv).                       *)
(***************************************************************************)
\* x surrounded by p zeros on each spatial side, at [d, r, q]
PaddedX(x, p, d, r, q) ==
  IF p <= r /\ r < p + x.shape[2] /\ p <= q /\ q < p + x.shape[3]
  THEN At3(x, d, r - p, q - p) ELSE 0

\* n = floor(a / s), for s > 0
IsFloorDiv(n, a, s) == n * s <= a /\ a < (n + 1) * s

\* The latest call was conv.forward on an input with the layer's channel count.
ForwardOnChannels ==
  /\ call.op = "conv.forward"
  /\ call.arg.shape[1] = conv.in_channels

\* Every window of an out x out output lies inside an array of hp rows and
\* wp columns.
WindowsInside(out, hp, wp) ==
  out > 0 => /\ (out - 1) * conv.stride + conv.kernelsize <= hp
             /\ (out - 1) * conv.stride + conv.kernelsize <= wp

C2_OutputShape ==
  LET x == call.arg
      H == x.shape[2]
  IN (/\ ForwardOnChannels
      /\ x.shape[3] = H
      /\ H + 2 * conv.pad >= conv.kernelsize) =>
       /\ call.raised = ""
       /\ call.ret.shape[1] = conv.out_channels
       /\ call.ret.shape[3] = call.ret.shape[2]
       /\ IsFloorDiv(call.ret.shape[2] - 1, H + 2 * conv.pad - conv.kernelsize, conv.stride)

\* C2 witness: a square input whose size does not divide evenly by the stride.
C2_Witness ==
  /\ ForwardOnChannels /\ call.raised = ""
  /\ call.arg.shape[3] = call.arg.shape[2]
  /\ conv.stride = 2
  /\ (call.arg.shape[2] + 2 * conv.pad - conv.kernelsize) % 2 = 1
  /\ call.ret.shape[2] = 2

\* The latest call was conv.backward, on a layer whose cache is a padded
\* input with the layer's channel count, with a delta of the shape
\* (C, out, out) of the output of the forward call that wrote the cache.
BackwardOnOutputShape ==
  /\ call.op = "conv.backward"
  /\ conv.cache # None
  /\ conv.cache.shape[1] = conv.in_channels
  /\ call.arg.shape[1] = conv.out_channels
  /\ call.arg.shape[3] = call.arg.shape[2]
  /\ IsFloorDiv(call.arg.shape[2] - 1, conv.cache.shape[2] - conv.kernelsize, conv.stride)
  /\ WindowsInside(call.arg.shape[2], conv.cache.shape[2], conv.cache.shape[3])

\* C3: forward stores the padded input as the cache, and a backward call with
\* a delta of shape (C,out,out) stores gradW, of the shape of W, with
\* gradW[c,d,di,dj] = sum over (i,j) of padded_x[d, i*s+di, j*s+dj] * delta[c,i,j].
C3_WeightGradient ==
  /\ (call.op = "conv.forward" /\ call.raised = "") =>
       LET x == call.arg
           p == conv.pad
       IN /\ conv.cache.shape = <<x.shape[1], x.shape[2] + 2 * p, x.shape[3] + 2 * p>>
          /\ \A d \in 0 .. x.shape[1] - 1, r \in 0 .. x.shape[2] + 2 * p - 1,
                  q \in 0 .. x.shape[3] + 2 * p - 1 :
               At3(conv.cache, d, r, q) = PaddedX(x, p, d, r, q)
  /\ BackwardOnOutputShape =>
       LET delta == call.arg
           out == delta.shape[2]
           k == conv.kernelsize
           s == conv.stride
       IN /\ call.raised = ""
          /\ conv.gradW.shape = conv.W.shape
          /\ \A c \in 0 .. conv.out_channels - 1, d \in 0 .. conv.in_channels - 1,
                  di \in 0 .. k - 1, dj \in 0 .. k - 1 :
               At4(conv.gradW, c, d, di, dj) =
                 SumTo([i \in 0 .. out - 1 |->
                   SumTo([j \in 0 .. out - 1 |->
                     At3(conv.cache, d, i * s + di, j * s + dj) * At3(delta, c, i, j)],
                     out)], out)

\* C3 witness: backward ran on a 2x2 kernel with several output positions and
\* stored a gradient that is not all zero.
C3_Witness ==
  /\ BackwardOnOutputShape /\ call.raised = ""
  /\ conv.kernelsize = 2 /\ conv.stride = 2 /\ conv.in_channels = 2
  /\ call.arg.shape[2] >= 2
  /\ \E e \in DOMAIN conv.gradW.v : conv.gradW.v[e] # 0

\* C4: with padding p >= 1, backward returns an input-gradient of the shape
\* (D,H,W) of the unpadded input, whose entry (d,r,q) is the sum over the
\* output channels c and over the output positions (i,j) whose window covers
\* it of W[c,d,di,dj] * delta[c,i,j].
C4_InputGradient ==
  (BackwardOnOutputShape /\ conv.pad >= 1) =>
    LET delta == call.arg
        out == delta.shape[2]
        k == conv.kernelsize
        s == conv.stride
        p == conv.pad
        g == call.ret
    IN /\ call.raised = ""
       /\ g.shape = <<conv.in_channels, conv.cache.shape[2] - 2 * p, conv.cache.shape[3] - 2 * p>>
       /\ \A d \in 0 .. g.shape[1] - 1, r \in 0 .. g.shape[2] - 1, q \in 0 .. g.shape[3] - 1 :
            At3(g, d, r, q) =
              SumTo([c \in 0 .. conv.out_channels - 1 |->
                SumTo([i \in 0 .. out - 1 |->
                  SumTo([j \in 0 .. out - 1 |->
                    LET di == r + p - i * s
                        dj == q + p - j * s
                    IN IF di \in 0 .. k - 1 /\ dj \in 0 .. k - 1
                       THEN At4(conv.W, c, d, di, dj) * At3(delta, c, i, j)
                       ELSE 0],
                    out)], out)], conv.out_channels)

\* C4 witness: backward returned a gradient with an entry covered by more than
\* one window (kernel 2, stride 1, padding 1), and the gradient is not all zero.
C4_Witness ==
  /\ BackwardOnOutputShape /\ call.raised = ""
  /\ conv.pad = 1 /\ conv.kernelsize = 2 /\ conv.stride = 1 /\ conv.out_channels = 2
  /\ call.ret.shape[2] >= 2
  /\ \E e \in DOMAIN call.ret.v : call.ret.v[e] # 0

\* C5: with padding p = 0, backward returns an input-gradient of the shape
\* (D,H,W) of the input (the cache, which then is the input itself).
C5_PadZeroKeepsShape ==
  (BackwardOnOutputShape /\ conv.pad = 0) =>
    /\ call.raised = ""
    /\ call.ret.shape = conv.cache.shape

(***************************************************************************)
(* Properties of MaxPool (checked under SpecPool).                         *)
(***************************************************************************)
\* x[d,r,q] is the maximum of its 2x2 window in channel d (over the part of
\* the window that lies inside x).
IsWindowMax(x, d, r, q) ==
  \A a, b \in 0 .. 1 :
    LET r2 == 2 * (r \div 2) + a
        q2 == 2 * (q \div 2) + b
    IN (r2 < x.shape[2] /\ q2 < x.shape[3]) => At3(x, d, r2, q2) <= At3(x, d, r, q)

\* The number of entries of window (i, j) of channel d of x that are maxima.
NumMaxima(x, d, i, j) ==
  Cardinality({n \in 0 .. 3 : IsWindowMax(x, d, 2 * i + (n \div 2), 2 * j + (n % 2))})

\* C6: on an input (D,H,W) with even H and W, forward returns an array of
\* shape (D, H/2, W/2) whose entry [d,i,j] is the maximum of
\* x[d, 2i..2i+1, 2j..2j+1], taken per channel.
C6_MaxPoolForward ==
  LET x == call.arg
      y == call.ret
  IN (call.op = "maxpool.forward" /\ x.shape[2] % 2 = 0 /\ x.shape[3] % 2 = 0) =>
       /\ call.raised = ""
       /\ y.shape[1] = x.shape[1] /\ 2 * y.shape[2] = x.shape[2] /\ 2 * y.shape[3] = x.shape[3]
       /\ \A d \in 0 .. y.shape[1] - 1, i \in 0 .. y.shape[2] - 1, j \in 0 .. y.shape[3] - 1 :
            /\ \A a, b \in 0 .. 1 : At3(x, d, 2 * i + a, 2 * j + b) <= At3(y, d, i, j)
            /\ \E a, b \in 0 .. 1 : At3(x, d, 2 * i + a, 2 * j + b) = At3(y, d, i, j)

\* C6 witness: a 4x4 input with two channels whose maxima differ between the
\* channels in some window.
C6_Witness ==
  /\ call.op = "maxpool.forward" /\ call.raised = ""
  /\ call.arg.shape = <<2, 4, 4>>
  /\ \E i, j \in 0 .. 1 : At3(call.ret, 0, i, j) # At3(call.ret, 1, i, j)

\* C7: right after a forward call that returned, the cache has the shape of x
\* and cache[d,r,q] is 1 if x[d,r,q] equals the maximum of its window in
\* channel d, else 0: one 1 in a window of distinct values, a 1 at every tied
\* maximum.
C7_MaxPoolMask ==
  LET x == call.arg
      m == maxpool.cache
  IN (call.op = "maxpool.forward" /\ call.raised = "") =>
       /\ m.shape = x.shape
       /\ \A d \in 0 .. x.shape[1] - 1, r \in 0 .. x.shape[2] - 1, q \in 0 .. x.shape[3] - 1 :
            At3(m, d, r, q) = IF IsWindowMax(x, d, r, q) THEN 1 ELSE 0
       /\ \A d \in 0 .. x.shape[1] - 1, i \in 0 .. (x.shape[2] \div 2) - 1,
               j \in 0 .. (x.shape[3] \div 2) - 1 :
            At3(m, d, 2 * i, 2 * j) + At3(m, d, 2 * i, 2 * j + 1)
              + At3(m, d, 2 * i + 1, 2 * j) + At3(m, d, 2 * i + 1, 2 * j + 1)
            = NumMaxima(x, d, i, j)

\* C7 witness: a forward call returned on an input with a window of tied
\* maxima (two 1s in the mask) and a window with a single maximum.
C7_Witness ==
  /\ call.op = "maxpool.forward" /\ call.raised = ""
  /\ \E d \in 0 .. call.arg.shape[1] - 1, i, j, i2, j2 \in 0 .. 1 :
       /\ 2 * i + 1 < call.arg.shape[2] /\ 2 * j + 1 < call.arg.shape[3]
       /\ 2 * i2 + 1 < call.arg.shape[2] /\ 2 * j2 + 1 < call.arg.shape[3]
       /\ NumMaxima(call.arg, d, i, j) >= 2
       /\ NumMaxima(call.arg, d, i2, j2) = 1
       /\ At3(maxpool.cache, d, 2 * i, 2 * j) + At3(maxpool.cache, d, 2 * i, 2 * j + 1)
            + At3(maxpool.cache, d, 2 * i + 1, 2 * j) + At3(maxpool.cache, d, 2 * i + 1, 2 * j + 1)
          >= 2

\* The latest call was backward, right after a forward call that returned,
\* with a delta of the shape of that forward call's output.
BackwardAfterForward ==
  /\ call.op = "maxpool.backward"
  /\ poolPrev.op = "maxpool.forward" /\ poolPrev.raised = ""
  /\ call.arg.shape = poolPrev.ret.shape

\* C8: backward after forward(x), with delta shaped like the forward output,
\* returns an array of the shape of x whose entry is the mask value times the
\* delta entry of its window: a window with one maximum sums to the delta
\* entry, every tied maximum receives the full delta entry, every other
\* position is 0.
C8_MaxPoolBackward ==
  BackwardAfterForward =>
    LET x == poolPrev.arg
        delta == call.arg
        g == call.ret
    IN /\ call.raised = ""
       /\ g.shape = x.shape
       /\ \A d \in 0 .. x.shape[1] - 1, r \in 0 .. x.shape[2] - 1, q \in 0 .. x.shape[3] - 1 :
            At3(g, d, r, q) =
              IF IsWindowMax(x, d, r, q) THEN At3(delta, d, r \div 2, q \div 2) ELSE 0
       /\ \A d \in 0 .. delta.shape[1] - 1, i \in 0 .. delta.shape[2] - 1,
               j \in 0 .. delta.shape[3] - 1 :
            NumMaxima(x, d, i, j) = 1 =>
              At3(g, d, 2 * i, 2 * j) + At3(g, d, 2 * i, 2 * j + 1)
                + At3(g, d, 2 * i + 1, 2 * j) + At3(g, d, 2 * i + 1, 2 * j + 1)
              = At3(delta, d, i, j)

\* C8 witness: backward returned after a forward call on an input with a
\* window of tied maxima, where the delta entry is not 0 and reaches two
\* positions.
C8_Witness ==
  /\ BackwardAfterForward /\ call.raised = ""
  /\ \E d \in 0 .. call.arg.shape[1] - 1, i \in 0 .. call.arg.shape[2] - 1,
         j \in 0 .. call.arg.shape[3] - 1 :
       /\ NumMaxima(poolPrev.arg, d, i, j) >= 2
       /\ At3(call.arg, d, i, j) # 0
       /\ Cardinality({n \in 0 .. 3 :
              At3(call.ret, d, 2 * i + (n \div 2), 2 * j + (n % 2)) = At3(call.arg, d, i, j)}) >= 2

\* C9: forward on an input whose height or width is odd returns, without an
\* error, an output of ceil(H/2) x ceil(W/2) spatial size.
C9_OddInputReturns ==
  (/\ call.op = "maxpool.forward"
   /\ (call.arg.shape[2] % 2 = 1 \/ call.arg.shape[3] % 2 = 1)) =>
    /\ call.raised = ""
    /\ call.ret.shape = <<call.arg.shape[1], (call.arg.shape[2] + 1) \div 2,
                          (call.arg.shape[3] + 1) \div 2>>

(***************************************************************************)
(* Properties of ReLU (checked under SpecReLU).                            *)
(***************************************************************************)
\* C10: forward returns max(x, 0) elementwise and caches that output; a
\* following backward(g) returns g where the cached output is strictly
\* positive and 0 where it is exactly zero.
C10_ReLU ==
  /\ call.op = "relu.forward" =>
       /\ call.raised = ""
       /\ call.ret.shape = call.arg.shape
       /\ relu.cache = call.ret
       /\ \A e \in DOMAIN call.arg.v :
            /\ call.ret.v[e] >= 0 /\ call.ret.v[e] >= call.arg.v[e]
            /\ call.ret.v[e] \in {0, call.arg.v[e]}
  /\ (call.op = "relu.backward" /\ relu.cache # None /\ call.arg.shape = relu.cache.shape) =>
       /\ call.raised = ""
       /\ call.ret.shape = call.arg.shape
       /\ \A e \in DOMAIN call.arg.v :
            /\ relu.cache.v[e] > 0 => call.ret.v[e] = call.arg.v[e]
            /\ relu.cache.v[e] = 0 => call.ret.v[e] = 0
            /\ relu.cache.v[e] >= 0

\* C10 witness: backward returned on a cache with a zero entry, where the
\* upstream gradient is not 0, and with a positive entry.
C10_Witness ==
  /\ call.op = "relu.backward" /\ call.raised = ""
  /\ call.arg.shape = relu.cache.shape
  /\ \E e \in DOMAIN call.arg.v : relu.cache.v[e] = 0 /\ call.arg.v[e] # 0
  /\ \E e \in DOMAIN call.arg.v : relu.cache.v[e] > 0 /\ call.ret.v[e] # 0

(***************************************************************************)
(* Properties of l2_loss (checked under SpecL2).                           *)
(***************************************************************************)
\* The latest call was l2.forward on a prediction and a target of one shape,
\* and it returned.
LossReturned ==
  /\ call.op = "l2.forward" /\ call.raised = ""
  /\ call.arg.shape = call.target.shape

\* C11: forward(prediction, target) returns sum(0.5*(prediction-target)^2)/N
\* and caches (prediction-target)/N elementwise, with one N for both;
\* backward() returns the cached value and leaves the cache as it is, so it
\* returns what the most recent forward call cached.
C11_L2Loss ==
  /\ [](LossReturned =>
          LET x == call.arg
              y == call.target
              N == l2.cache.den
          IN /\ N > 0
             /\ l2.cache.shape = x.shape
             /\ \A e \in DOMAIN x.v : l2.cache.v[e] = x.v[e] - y.v[e]
             /\ 2 * N * call.ret.num
                  = call.ret.den * SumTo([n \in 0 .. Cardinality(DOMAIN x.v) - 1 |->
                      LET e == <<n \div (x.shape[2] * x.shape[3]),
                                 (n \div x.shape[3]) % x.shape[2], n % x.shape[3]>>
                      IN (x.v[e] - y.v[e]) * (x.v[e] - y.v[e])],
                      Cardinality(DOMAIN x.v)))
  /\ [][call'.op = "l2.backward" =>
          /\ call'.raised = ""
          /\ call'.ret = l2.cache
          /\ l2' = l2]_vars

\* C11 witness: backward returned residuals that a forward call cached, not
\* all zero, after a forward call and another call in between.
C11_Witness ==
  /\ call.op = "l2.backward" /\ call.raised = ""
  /\ ncalls = 3
  /\ call.ret # None
  /\ call.ret = l2.cache
  /\ Cardinality(DOMAIN call.ret.v) = 4
  /\ \E e \in DOMAIN call.ret.v : call.ret.v[e] # 0

(***************************************************************************)
(* Properties of the gradient check (checked under SpecCheck).             *)
(***************************************************************************)
\* The weights W with the n-th element of layer l moved by delta
Moved(W, l, n, delta) ==
  LET ix == ElemIdx([W |-> W[l]], n)
  IN [W EXCEPT ![l].v[ix] = @ + delta]

\* The cost of the model with the weights W, computed on fresh layers
CostAt(W) ==
  ModelCost([ModelInit(1, 1) EXCEPT !.conv1.W = W[1], !.conv2.W = W[2]], gc.x, gc.y).ret

\* The element examined last
LastExamined == gc.examined[Len(gc.examined)]

\* |gradient_approximation - gradW[c,d,i,j]| <= epsilon for the element
\* examined last, gradW being that of the layer the element belongs to
LastAgrees ==
  LET L == Layer(model, LastExamined[1])
      g == L.gradW.v[ElemIdx(L, LastExamined[2])]
      a == gc.gradient_approximation
      diff == a.num * L.gradW.den - g * a.den
  IN diff <= Eps * a.den * L.gradW.den /\ -diff <= Eps * a.den * L.gradW.den

\* C12: the gradient check never leaves a weight changed: at the start of
\* each element's evaluation, when the backward pass is about to run and has
\* run, and when the check has ended (after the last element or by a failed
\* assertion), the weights of both layers are those from before the check.
C12_WeightsRestored ==
  (\/ gc.pc \in {"plus", "backward", "assert", "done"}
   \/ gc.pc = "raised" /\ gc.exc = "AssertionError") =>
    Weights(model) = gc.W0

\* C12 witness: the check ended after the last element; its latest element
\* was evaluated at perturbed weights, and the weights are the original ones.
C12_Witness ==
  /\ gc.pc = "done"
  /\ Len(gc.examined) = NumElems(model.conv1) + NumElems(model.conv2)
  /\ gc.passes[1].W # gc.W0 /\ gc.passes[2].W # gc.W0
  /\ Weights(model) = gc.W0

\* C13: when the assertion for an element is reached, exactly four passes
\* have run for it, in this order: a forward pass with only that element at
\* orig + eps (its cost is cost1), a forward pass with only that element at
\* orig - eps (cost2), a forward pass and a backward pass at the original
\* weights; gradient_approximation is (cost1 - cost2)/(2*eps); and the
\* assertion passes exactly when it is within eps of gradW at the element's
\* index in the element's layer.
C13_CheckOrder ==
  /\ gc.pc = "assert" =>
       /\ Len(gc.passes) = 4
       /\ [i \in 1 .. 4 |-> gc.passes[i].pass] = <<"forward", "forward", "forward", "backward">>
       /\ gc.passes[1].W = Moved(gc.W0, gc.l, gc.n, Eps)
       /\ gc.passes[2].W = Moved(gc.W0, gc.l, gc.n, -Eps)
       /\ gc.passes[3].W = gc.W0
       /\ gc.passes[4].W = gc.W0
       /\ gc.cost1 = CostAt(Moved(gc.W0, gc.l, gc.n, Eps))
       /\ gc.cost2 = CostAt(Moved(gc.W0, gc.l, gc.n, -Eps))
       /\ gc.cost1.den = gc.cost2.den
       /\ 2 * Eps * gc.gradient_approximation.num * gc.cost1.den
            = (gc.cost1.num - gc.cost2.num) * gc.gradient_approximation.den
  /\ (gc.pc \in {"plus", "done"} /\ gc.examined # <<>>) => LastAgrees
  /\ (gc.pc = "raised" /\ gc.exc = "AssertionError") => ~LastAgrees

\* C13 witness: the assertion is reached for an element of conv2 whose two
\* costs differ and whose gradW entry is not 0.
C13_Witness ==
  /\ gc.pc = "assert"
  /\ gc.l = 2
  /\ gc.cost1 # gc.cost2
  /\ model.conv2.gradW.v[ElemIdx(model.conv2, gc.n)] # 0

\* C15: a mismatch beyond the tolerance does not end the check: when the
\* check has ended, every weight element of both layers has been examined.
C15_ExaminesAll ==
  gc.pc \in {"done", "raised"} =>
    Len(gc.examined) = NumElems(model.conv1) + NumElems(model.conv2)

(***************************************************************************)
(* Error handling of the layers.                                           *)
(***************************************************************************)
\* C16: backward on a layer object whose cache is absent (no forward call
\* has stored one) fails with a StateError, whatever the layer type.
C16_BackwardNeedsForward ==
  /\ (call.op = "conv.backward" /\ conv.cache = None) => call.raised = "StateError"
  /\ (call.op = "maxpool.backward" /\ maxpool.cache = None) => call.raised = "StateError"
  /\ (call.op = "relu.backward" /\ relu.cache = None) => call.raised = "StateError"
  /\ (call.op = "l2.backward" /\ l2.cache = None) => call.raised = "StateError"

\* C17: convLayer forward on an input whose channel count differs from the
\* layer's input-channel count fails with a ShapeError.
C17_ChannelMismatchRaises ==
  (call.op = "conv.forward" /\ call.arg.shape[1] # conv.in_channels) =>
    call.raised = "ShapeError"

\* The latest call was conv.forward on a square input with the layer's
\* channel count, at least as large as the kernel once padded, where
\* H + 2p - k is not a multiple of the stride.
ForwardNotDivisible ==
  /\ ForwardOnChannels
  /\ call.arg.shape[3] = call.arg.shape[2]
  /\ call.arg.shape[2] + 2 * conv.pad >= conv.kernelsize
  /\ (call.arg.shape[2] + 2 * conv.pad - conv.kernelsize) % conv.stride # 0

\* C18 as claimed: forward fails with a ShapeError whenever H + 2p - k is not
\* an exact multiple of the stride.
C18_NotDivisibleRaises == ForwardNotDivisible => call.raised = "ShapeError"

\* C18 as amended: when H + 2p - k is not an exact multiple of the stride,
\* forward raises nothing and truncates: it returns as many output rows and
\* columns as windows fit into the padded input, and the rows and columns
\* after the last window (fewer than the stride) take no part.
C18_NotDivisibleFloors ==
  ForwardNotDivisible =>
    LET side == call.arg.shape[2] + 2 * conv.pad
        out == call.ret.shape[2]
    IN /\ call.raised = ""
       /\ call.ret.shape = <<conv.out_channels, out, out>>
       /\ out >= 1
       /\ (out - 1) * conv.stride + conv.kernelsize < side
       /\ out * conv.stride + conv.kernelsize > side

\* C18 witness: a 2x2 kernel with stride 2 on a padded input of side 5
\* returned a 2x2 output.
C18_Witness ==
  /\ ForwardNotDivisible /\ call.raised = ""
  /\ conv.kernelsize = 2 /\ conv.stride = 2
  /\ call.arg.shape[2] + 2 * conv.pad = 5
  /\ call.ret.shape[2] = 2

\* C19: the normalization constant N is given to the loss object when it is
\* constructed, and forward divides the residuals by the object's own N.
C19_ConfiguredN ==
  LossReturned => ("N" \in DOMAIN l2 /\ l2.cache.den = l2.N)

(***************************************************************************)
(* Repeated backward calls of convLayer (checked under SpecRepeat).        *)
(***************************************************************************)
\* The weight-gradient of delta alone on the cached padded input, at (c,d,di,dj)
GradFrom(delta, c, d, di, dj) ==
  LET n == delta.shape[2] * delta.shape[3]
  IN SumTo([e \in 0 .. n - 1 |->
              LET i == e \div delta.shape[3]
                  j == e % delta.shape[3]
              IN At3(conv.cache, d, i * conv.stride + di, j * conv.stride + dj)
                 * At3(delta, c, i, j)], n)

\* The latest two calls were backward calls that returned.
BackwardTwice ==
  /\ BackwardOnOutputShape /\ call.raised = ""
  /\ prev.op = "conv.backward" /\ prev.raised = ""

\* C20: a backward call replaces the stored weight-gradient: after
\* forward(x), backward(d1), backward(d2), gradW is the gradient of d2 alone,
\* and a backward call with the delta of the backward call before it leaves
\* gradW as it was.
C20_GradWOverwritten ==
  /\ [](BackwardTwice =>
          \A c \in 0 .. conv.out_channels - 1, d \in 0 .. conv.in_channels - 1,
             di \in 0 .. conv.kernelsize - 1, dj \in 0 .. conv.kernelsize - 1 :
            At4(conv.gradW, c, d, di, dj) = GradFrom(call.arg, c, d, di, dj))
  /\ [][(/\ call.op = "conv.backward" /\ call.raised = ""
         /\ call'.op = "conv.backward" /\ call'.arg = call.arg) =>
          /\ call'.raised = ""
          /\ conv'.gradW = conv.gradW]_vars

\* C20 witness: two backward calls returned, with deltas d1 and d2 of one
\* shape whose gradients differ and are not 0, and gradW is not the sum.
C20_Witness ==
  /\ BackwardTwice
  /\ prev.arg.shape = call.arg.shape /\ prev.arg # call.arg
  /\ \E c \in 0 .. conv.out_channels - 1, d \in 0 .. conv.in_channels - 1,
        di \in 0 .. conv.kernelsize - 1, dj \in 0 .. conv.kernelsize - 1 :
       /\ GradFrom(prev.arg, c, d, di, dj) # 0
       /\ GradFrom(call.arg, c, d, di, dj) # 0
       /\ At4(conv.gradW, c, d, di, dj)
            # GradFrom(prev.arg, c, d, di, dj) + GradFrom(call.arg, c, d, di, dj)

(***************************************************************************)
(* Forward before backward in the gradient check (checked under SpecCheck) *)
(***************************************************************************)
\* The caches of the six layer instances
Caches(M) ==
  <<M.conv1.cache, M.rl1.cache, M.conv2.cache, M.maxpool.cache, M.rl2.cache, M.l2.cache>>

\* The caches a forward pass and the loss write at the weights W
CachesAt(W) ==
  Caches(ModelCost([ModelInit(1, 1) EXCEPT !.conv1.W = W[1], !.conv2.W = W[2]],
                   gc.x, gc.y).obj)

\* C21: in the gradient check every backward pass follows a forward pass at
\* the original weights with no backward pass in between, and when the
\* backward pass is about to run the cache of each of conv1, rl1, conv2,
\* maxpool, rl2 and l2 is the one the forward pass at the original weights
\* writes.
C21_BackwardFollowsForward ==
  /\ \A i \in 1 .. Len(gc.passes) :
       gc.passes[i].pass = "backward" =>
         /\ i > 1
         /\ gc.passes[i - 1].pass = "forward"
         /\ gc.passes[i - 1].W = gc.W0
  /\ gc.pc = "backward" =>
       /\ \A i \in 1 .. 6 : Caches(model)[i] # None
       /\ Caches(model) = CachesAt(gc.W0)

\* C21 witness: a backward pass has run for an element after the backward
\* pass of an earlier element, and the forward pass before it wrote other
\* caches than the pass at orig - eps before that one.
C21_Witness ==
  /\ gc.pc = "assert"
  /\ gc.examined # <<>>
  /\ gc.passes[4].pass = "backward"
  /\ CachesAt(gc.passes[2].W) # CachesAt(gc.passes[3].W)

(***************************************************************************)
(* Shapes along the stacked model (checked under SpecStack).               *)
(***************************************************************************)
\* The calls of one forward pass, the loss and one backward pass, in order
StackOrder ==
  <<"conv1.forward", "rl1.forward", "conv2.forward", "maxpool.forward", "rl2.forward",
    "l2.forward", "l2.backward", "rl2.backward", "maxpool.backward", "conv2.backward",
    "rl1.backward", "conv1.backward">>

\* The shapes of the forward pass on an image of side n: the input, then the
\* outputs of conv1, rl1, conv2, maxpool and rl2
ChainShapes(n) ==
  <<<<1, n, n>>, <<3, n, n>>, <<3, n, n>>, <<1, n \div 2, n \div 2>>,
    <<1, n \div 4, n \div 4>>, <<1, n \div 4, n \div 4>>>>

\* C22: no call of the pass raises; the calls are made in the order conv1,
\* rl1, conv2, maxpool, rl2, loss and back in the reverse order; on an image
\* (1,n,n) the forward shapes are (3,n,n), (3,n,n), (1,n/2,n/2), (1,n/4,n/4),
\* (1,n/4,n/4); each layer's backward call gets a delta of the shape of the
\* layer's forward output and returns an array of the shape of its forward
\* input, the last one, of conv1, being (1,n,n).
C22_ShapesChain ==
  LET n == gc.x.shape[2] IN
  /\ gc.pc # "raised"
  /\ \A k \in 1 .. Len(gc.log) : gc.log[k].op = StackOrder[k]
  /\ \A k \in 1 .. Min(5, Len(gc.log)) :
       /\ gc.log[k].arg = ChainShapes(n)[k]
       /\ gc.log[k].ret = ChainShapes(n)[k + 1]
  /\ \A k \in 8 .. Len(gc.log) :
       /\ gc.log[k].arg = gc.log[13 - k].ret
       /\ gc.log[k].ret = gc.log[13 - k].arg
  /\ gc.pc = "done" => call.op = "conv1.backward" /\ call.ret.shape = <<1, n, n>>

\* C22 witness: the passes are through on the image (1,28,28): conv2 gave
\* (1,14,14), maxpool (1,7,7), and conv1's backward call returned (1,28,28).
C22_Witness ==
  /\ gc.pc = "done"
  /\ Len(gc.log) = 12
  /\ gc.log[1].arg = <<1, 28, 28>> /\ gc.log[1].ret = <<3, 28, 28>>
  /\ gc.log[3].ret = <<1, 14, 14>>
  /\ gc.log[4].ret = <<1, 7, 7>>
  /\ gc.log[8].arg = <<1, 7, 7>>
  /\ call.ret.shape = <<1, 28, 28>>
  /\ \E ix \in DOMAIN call.ret.v : call.ret.v[ix] # 0

(***************************************************************************)
(* Overlapping cycles on one convLayer (checked under SpecOverlap).        *)
(***************************************************************************)
\* The weight-gradient of delta on the input x padded by the layer, at (c,d,di,dj)
GradOn(x, delta, c, d, di, dj) ==
  LET n == delta.shape[2] * delta.shape[3]
  IN SumTo([e \in 0 .. n - 1 |->
              LET i == e \div delta.shape[3]
                  j == e % delta.shape[3]
              IN PaddedX(x, conv.pad, d, i * conv.stride + di, j * conv.stride + dj)
                 * At3(delta, c, i, j)], n)

\* forward(x1) and forward(x2) returned, then backward was called.
Overlapped ==
  /\ Len(hist) = 3
  /\ hist[1].op = "conv.forward" /\ hist[1].raised = ""
  /\ hist[2].op = "conv.forward" /\ hist[2].raised = ""
  /\ hist[3].op = "conv.backward"

\* C23: the cache is a single slot: after forward(x1), forward(x2) it is the
\* padded x2, and a backward call with a delta of the shape of the second
\* output returns, stores the weight-gradient of the delta on the padded x2
\* and returns an input-gradient for x2: of the shape of x2 when the padding
\* is at least 1, and with no rows and columns when it is 0.
C23_SingleSlotCache ==
  /\ (Len(hist) >= 2 /\ hist[1].raised = "" /\ hist[2].raised = "") =>
       LET x2 == hist[2].arg
           p == conv.pad
       IN /\ conv.cache.shape = <<x2.shape[1], x2.shape[2] + 2 * p, x2.shape[3] + 2 * p>>
          /\ \A ix \in DOMAIN conv.cache.v :
               conv.cache.v[ix] = PaddedX(x2, p, ix[1], ix[2], ix[3])
  /\ (Overlapped /\ BackwardOnOutputShape) =>
       LET x2 == hist[2].arg
       IN /\ call.raised = ""
          /\ \A c \in 0 .. conv.out_channels - 1, d \in 0 .. conv.in_channels - 1,
                di \in 0 .. conv.kernelsize - 1, dj \in 0 .. conv.kernelsize - 1 :
               At4(conv.gradW, c, d, di, dj) = GradOn(x2, call.arg, c, d, di, dj)
          /\ call.ret.shape = IF conv.pad >= 1 THEN x2.shape
                              ELSE <<x2.shape[1], 0, 0>>

\* C23 witness: forward(x1), forward(x2), backward(d) returned, x1 and x2
\* differ in shape, the input-gradient has the shape of x2, and gradW is not
\* the weight-gradient of d on x1.
C23_Witness ==
  /\ Overlapped /\ BackwardOnOutputShape /\ call.raised = ""
  /\ conv.pad >= 1
  /\ hist[1].arg.shape # hist[2].arg.shape
  /\ call.ret.shape = hist[2].arg.shape
  /\ \E c \in 0 .. conv.out_channels - 1, d \in 0 .. conv.in_channels - 1,
        di \in 0 .. conv.kernelsize - 1, dj \in 0 .. conv.kernelsize - 1 :
       /\ At4(conv.gradW, c, d, di, dj) # 0
       /\ At4(conv.gradW, c, d, di, dj) # GradOn(hist[1].arg, call.arg, c, d, di, dj)

(***************************************************************************)
(* The cache of MaxPool over sequences of calls (checked under SpecPool).  *)
(***************************************************************************)
\* C24: once a forward call has written the cache, in every state reached by
\* forward and backward calls the cache has the shape of the input of the
\* most recent forward call and each of its entries is 0 or 1.
C24_CacheBinaryMask ==
  maxpool.cache # None =>
    /\ \A ix \in DOMAIN maxpool.cache.v : maxpool.cache.v[ix] \in {0, 1}
    /\ call.op = "maxpool.forward" => maxpool.cache.shape = call.arg.shape
    /\ (call.op = "maxpool.backward" /\ poolPrev.op = "maxpool.forward") =>
         maxpool.cache.shape = poolPrev.arg.shape

ColumnsRead(x, out) ==
  Max(0, Min(x.shape[3], (out - 1) * conv.stride + conv.kernelsize - conv.pad))

ScriptInput == fcnn.x = <<1, -1>> /\ fcnn.target = 1

====
